---- MODULE Spec2Model ----
(***************************************************************************)
(* A model of the campsite map's location search (GeocodingService):       *)
(* searchLocation with its cache, its request throttle and its relevance   *)
(* pipeline, reverseGeocode, clearCache and getPopularNYLocations; of the   *)
(* campsite file loader (parseCampsiteCSV, loadCampsiteData); and of the   *)
(* search bar (LocationSearchBar) with its debounce timer.                 *)
(*                                                                         *)
(* Text is a sequence of one-character strings, so that trim, toLowerCase  *)
(* and includes are computed character by character.  Numbers are          *)
(* fixed-point integers in units of 1/Scale.                               *)
(***************************************************************************)
EXTENDS Integers, Sequences, FiniteSets, Bags, TLC

VARIABLES
    cache,            \* GeocodingService.cache: normalized query -> result list
    lastRequestTime,  \* GeocodingService.lastRequestTime (ms)
    now,              \* Date.now() (ms)
    calls,            \* the searchLocation and reverseGeocode calls in flight
                      \* (a bag): where each stands, its argument, when its
                      \* throttle timer is due
    lastSettled,      \* history: the operation that completed last, and its outcome
    clearPending,     \* history: clearCache ran and no search has started since
    sequential,       \* history: every call so far started with none in flight
    lastDispatch,     \* history: when the latest upstream request was dispatched
                      \* (0 when none was)
    backToBack,       \* history: "first" when the step before started a call,
                      \* "both" when the two calls last started were started in
                      \* consecutive steps with no other call in flight
    data,             \* the input of the function under check: the upstream
                      \* array handed to the pipeline, the rows of the CSV file
    out,              \* what the function under check made of it
    bar,              \* LocationSearchBar: its state hooks, its debounce timer
                      \* and the performSearch calls awaiting searchLocation
    tip               \* CampsiteMap: the tooltip, its refs, its hide timer, the
                      \* pointer and the clock of the page

serviceVars ==
    <<cache, lastRequestTime, now, calls, lastSettled, clearPending, sequential,
      lastDispatch, backToBack>>
vars == <<cache, lastRequestTime, now, calls, lastSettled, clearPending, sequential,
          lastDispatch, backToBack, data, out, bar, tip>>

(***************************************************************************)
(* JavaScript values                                                       *)
(***************************************************************************)
Undefined == "undefined"

Whitespace == {" ", "\t", "\n"}

UpperChars == <<"A","B","C","D","E","F","G","H","I","J","K","L","M",
                "N","O","P","Q","R","S","T","U","V","W","X","Y","Z">>
LowerChars == <<"a","b","c","d","e","f","g","h","i","j","k","l","m",
                "n","o","p","q","r","s","t","u","v","w","x","y","z">>

\* the lower-case letter of each upper-case letter
LowerOf == [c \in {UpperChars[i] : i \in 1..Len(UpperChars)} |->
              LowerChars[CHOOSE i \in 1..Len(UpperChars) : UpperChars[i] = c]]

ToLowerChar(c) == IF c \in DOMAIN LowerOf THEN LowerOf[c] ELSE c

\* String.prototype.toLowerCase
ToLowerCase(s) == [i \in 1..Len(s) |-> ToLowerChar(s[i])]

RECURSIVE TrimStart(_)
TrimStart(s) ==
    IF s # <<>> /\ Head(s) \in Whitespace THEN TrimStart(Tail(s)) ELSE s

RECURSIVE TrimEnd(_)
TrimEnd(s) ==
    IF s # <<>> /\ s[Len(s)] \in Whitespace
    THEN TrimEnd(SubSeq(s, 1, Len(s) - 1))
    ELSE s

\* String.prototype.trim
Trim(s) == TrimEnd(TrimStart(s))

\* String.prototype.includes
Includes(s, sub) ==
    \E i \in 0..(Len(s) - Len(sub)) : \A j \in 1..Len(sub) : s[i + j] = sub[j]

\* Array.prototype.includes, the array given as a set
ArrayIncludes(arr, x) == x \in arr

(***************************************************************************)
(* parseFloat on the decimal literals the upstream sends: an optional      *)
(* sign, digits, an optional fraction.  The value is in units of 1/Scale;  *)
(* a text with no leading number gives NaN.                                *)
(***************************************************************************)
Scale == 10 * 10 * 10 * 10
NaN == "NaN"

Digits == {"0","1","2","3","4","5","6","7","8","9"}

DigitVal(c) ==
    CASE c = "0" -> 0 [] c = "1" -> 1 [] c = "2" -> 2 [] c = "3" -> 3
      [] c = "4" -> 4 [] c = "5" -> 5 [] c = "6" -> 6 [] c = "7" -> 7
      [] c = "8" -> 8 [] c = "9" -> 9

\* the longest prefix of s made of digits
RECURSIVE DigitRun(_)
DigitRun(s) ==
    IF s # <<>> /\ Head(s) \in Digits
    THEN <<Head(s)>> \o DigitRun(Tail(s))
    ELSE <<>>

RECURSIVE DigitsValue(_)
DigitsValue(ds) ==
    IF ds = <<>> THEN 0
    ELSE 10 * DigitsValue(SubSeq(ds, 1, Len(ds) - 1)) + DigitVal(ds[Len(ds)])

\* the first four digits of a fraction (Scale), padded with zeros
FracValue(ds) ==
    DigitsValue([i \in 1..4 |-> IF i <= Len(ds) THEN ds[i] ELSE "0"])

ParseFloat(text) ==
    LET s    == TrimStart(text)
        neg  == s # <<>> /\ Head(s) = "-"
        body == IF s # <<>> /\ Head(s) \in {"-", "+"} THEN Tail(s) ELSE s
        ip   == DigitRun(body)
        rest == SubSeq(body, Len(ip) + 1, Len(body))
        fp   == IF rest # <<>> /\ Head(rest) = "." THEN DigitRun(Tail(rest)) ELSE <<>>
        mag  == DigitsValue(ip) * Scale + FracValue(fp)
    IN  IF ip = <<>> /\ fp = <<>> THEN NaN
        ELSE IF neg THEN 0 - mag ELSE mag

(***************************************************************************)
(* The relevance pipeline of searchLocation                                *)
(***************************************************************************)
IconDefault  == "office_building"       \* U+1F3E2
IconPeak     == "snow_capped_mountain"  \* U+1F3D4
IconTree     == "evergreen_tree"        \* U+1F332
IconWater    == "water_wave"            \* U+1F30A
IconLeisure  == "house_with_garden"     \* U+1F3E1
IconPark     == "national_park"         \* U+1F3DE

RegionNewYork    == <<"n","e","w"," ","y","o","r","k">>
RegionCommaNy    == <<","," ","n","y">>
RegionSpaceNy    == <<" ","n","y"," ">>
RegionNyComma    == <<"n","y",",">>
OutsideSuffix    == <<" ","(","O","u","t","s","i","d","e"," ","N","Y",")">>
DefaultImportance == <<"0">>

\* item.display_name || ''
DisplayNameOf(item) == item.display_name

\* the region test with ' ny' in place of ' ny '
IsInNYSpaceBefore(item) ==
    LET displayName == ToLowerCase(DisplayNameOf(item))
        address     == item.address
    IN  \/ Includes(displayName, RegionNewYork)
        \/ Includes(displayName, RegionCommaNy)
        \/ Includes(displayName, SubSeq(RegionSpaceNy, 1, 3))
        \/ Includes(displayName, RegionNyComma)
        \/ address.state = "New York"
        \/ address.state = "NY"

IsInNY(item) ==
    LET displayName == ToLowerCase(DisplayNameOf(item))
        address     == item.address
    IN  \/ Includes(displayName, RegionNewYork)
        \/ Includes(displayName, RegionCommaNy)
        \/ Includes(displayName, RegionSpaceNy)
        \/ Includes(displayName, RegionNyComma)
        \/ address.state = "New York"
        \/ address.state = "NY"

ValidTypes ==
    {"city", "town", "village", "hamlet", "county", "state",
     "municipality", "borough", "administrative", "locality",
     "lake", "peak", "forest", "wood", "nature_reserve", "protected_area",
     "park", "island", "mountain", "water"}

ValidClasses == {"place", "administrative", "boundary", "natural", "water", "leisure"}

IsRelevantType(item) ==
    ArrayIncludes(ValidTypes, item.type) \/ ArrayIncludes(ValidClasses, item.class)

KeepItemAnyTest(item) == IsInNY(item) \/ IsRelevantType(item)

\* the filter callback's return value
KeepItem(item) == IsInNY(item) /\ IsRelevantType(item)

\* the branches on type tried before the branches on class
FeatureCategoryTypeFirst(item) ==
    IF item.type = "protected_area" \/ item.type = "nature_reserve" THEN "natural"
    ELSE IF item.type = "park" THEN "recreation"
    ELSE IF item.class = "natural" THEN "natural"
    ELSE IF item.class = "water" THEN "water"
    ELSE IF item.class = "leisure" THEN "recreation"
    ELSE "administrative"

FeatureCategory(item) ==
    IF item.class = "natural" THEN "natural"
    ELSE IF item.class = "water" THEN "water"
    ELSE IF item.class = "leisure" THEN "recreation"
    ELSE IF item.type = "protected_area" \/ item.type = "nature_reserve" THEN "natural"
    ELSE IF item.type = "park" THEN "recreation"
    ELSE "administrative"

Icon(item) ==
    IF item.class = "natural" THEN (IF item.type = "peak" THEN IconPeak ELSE IconTree)
    ELSE IF item.class = "water" THEN IconWater
    ELSE IF item.class = "leisure" THEN IconLeisure
    ELSE IF item.type = "protected_area" \/ item.type = "nature_reserve" THEN IconTree
    ELSE IF item.type = "park" THEN IconPark
    ELSE IconDefault

\* the bounding box parsed in the order the upstream gives it
BBoxUnreordered(item) ==
    IF item.boundingbox # <<>>
    THEN <<ParseFloat(item.boundingbox[1]), ParseFloat(item.boundingbox[2]),
           ParseFloat(item.boundingbox[3]), ParseFloat(item.boundingbox[4])>>
    ELSE <<>>

\* [south, north, west, east] strings to [west, south, east, north] numbers
BBoxOf(item) ==
    IF item.boundingbox # <<>>
    THEN <<ParseFloat(item.boundingbox[3]), ParseFloat(item.boundingbox[1]),
           ParseFloat(item.boundingbox[4]), ParseFloat(item.boundingbox[2])>>
    ELSE <<>>

ImportanceOf(item) ==
    ParseFloat(IF item.importance = <<>> THEN DefaultImportance ELSE item.importance)

TypeOf(item) == IF item.type = Undefined THEN "place" ELSE item.type

\* the map callback of the main path
MapItem(item) ==
    [displayName     |-> item.display_name,
     latitude        |-> ParseFloat(item.lat),
     longitude       |-> ParseFloat(item.lon),
     bbox            |-> BBoxOf(item),
     importance      |-> ImportanceOf(item),
     type            |-> TypeOf(item),
     featureCategory |-> FeatureCategory(item),
     icon            |-> Icon(item)]

\* .map(callback) of the main path
MapItems(s) == [i \in 1..Len(s) |-> MapItem(s[i])]

\* where x goes in a list already in order: behind every entry that does not
\* compare after it (compare(a, b) = b.importance - a.importance)
RECURSIVE InsertByImportance(_, _)
InsertByImportance(x, sorted) ==
    IF sorted = <<>> THEN <<x>>
    ELSE IF x.importance - Head(sorted).importance > 0
         THEN <<x>> \o sorted
         ELSE <<Head(sorted)>> \o InsertByImportance(x, Tail(sorted))

RECURSIVE StableSort(_)
StableSort(s) ==
    IF s = <<>> THEN <<>>
    ELSE InsertByImportance(s[Len(s)], StableSort(SubSeq(s, 1, Len(s) - 1)))

UnsortedResults(s) == s

\* Array.prototype.sort with the importance comparator (a stable sort)
SortByImportance(s) == StableSort(s)

FallbackValidTypes ==
    {"city", "town", "village", "hamlet", "county", "state",
     "municipality", "borough", "administrative", "locality"}

FallbackValidClasses == {"place", "administrative", "boundary"}

FallbackKeepAll(item) == TRUE

\* the fallback's filter callback
FallbackKeepItem(item) ==
    ArrayIncludes(FallbackValidTypes, item.type)
        \/ ArrayIncludes(FallbackValidClasses, item.class)

FallbackLimit == 3

\* Array.prototype.slice(0, n)
Slice0(s, n) == SubSeq(s, 1, IF Len(s) < n THEN Len(s) ELSE n)

SliceNone(s, n) == s

\* .slice(0, 3) of the fallback
FallbackSlice(s, n) == Slice0(s, n)

\* the map callback of the fallback
FallbackMapItem(item) ==
    [displayName     |-> item.display_name \o OutsideSuffix,
     latitude        |-> ParseFloat(item.lat),
     longitude       |-> ParseFloat(item.lon),
     bbox            |-> BBoxOf(item),
     importance      |-> ImportanceOf(item),
     type            |-> TypeOf(item),
     featureCategory |-> "administrative",
     icon            |-> IconDefault]

\* .map(callback) of the fallback
FallbackMapItems(s) == [i \in 1..Len(s) |-> FallbackMapItem(s[i])]

MainResults(d) == SortByImportance(MapItems(SelectSeq(d, KeepItem)))

FallbackResults(d) ==
    FallbackMapItems(FallbackSlice(SelectSeq(d, FallbackKeepItem), FallbackLimit))

\* What searchLocation makes of a 2xx response body: the list it caches and
\* returns, and the return statement it leaves through.
ProcessResponse(d) ==
    LET results == MainResults(d)
    IN  IF Len(results) = 0 /\ Len(d) > 0 /\ Len(FallbackResults(d)) > 0
        THEN [path |-> "fallback", list |-> FallbackResults(d)]
        ELSE [path |-> "main", list |-> results]

(***************************************************************************)
(* Upstream records the checks draw from (the response shape of the tests) *)
(***************************************************************************)
\* in region by 'new york'; the tests' record
AlbanyNY ==
    [display_name |-> <<"A","l","b","a","n","y",","," ","N","e","w"," ","Y","o","r","k">>,
     lat          |-> <<"4","2",".","6","8","0","3">>,
     lon          |-> <<"-","7","3",".","8","3","7","0">>,
     importance   |-> <<"0",".","8">>,
     type         |-> "city",
     class        |-> "place",
     address      |-> [state |-> Undefined],
     boundingbox  |-> <<<<"4","2",".","6","0","0","3">>, <<"4","2",".","7","6","0","3">>, <<"-","7","3",".","9","1","7","0">>, <<"-","7","3",".","7","5","7","0">>>>]

\* the tests' Georgia record: 'albany, georgia' contains 'ny,'
AlbanyGA ==
    [display_name |-> <<"A","l","b","a","n","y",","," ","G","e","o","r","g","i","a">>,
     lat          |-> <<"3","1",".","5","7","8","6">>,
     lon          |-> <<"-","8","4",".","1","5","5","7">>,
     importance   |-> <<"0",".","7">>,
     type         |-> "city",
     class        |-> "place",
     address      |-> [state |-> Undefined],
     boundingbox  |-> <<>>]

\* out of region, an administrative place with TroyNY's name
TroyOH ==
    [display_name |-> <<"T","r","o","y",","," ","O","h","i","o">>,
     lat          |-> <<"4","0",".","0","4">>,
     lon          |-> <<"-","8","4",".","2","0">>,
     importance   |-> <<"0",".","5">>,
     type         |-> "city",
     class        |-> "place",
     address      |-> [state |-> "Ohio"],
     boundingbox  |-> <<>>]

\* in region by address.state alone; same importance as AlbanyNY
TroyNY ==
    [display_name |-> <<"T","r","o","y">>,
     lat          |-> <<"4","2",".","7","2">>,
     lon          |-> <<"-","7","3",".","6","9">>,
     importance   |-> <<"0",".","8">>,
     type         |-> "town",
     class        |-> "place",
     address      |-> [state |-> "NY"],
     boundingbox  |-> <<>>]

\* out of region, a natural feature; no importance
TahoeCA ==
    [display_name |-> <<"L","a","k","e"," ","T","a","h","o","e",","," ","C","a","l","i","f","o","r","n","i","a">>,
     lat          |-> <<"3","9",".","0","9">>,
     lon          |-> <<"-","1","2","0",".","0","3">>,
     importance   |-> <<>>,
     type         |-> "water",
     class        |-> "natural",
     address      |-> [state |-> "California"],
     boundingbox  |-> <<>>]

\* in region, neither type nor class allowed
DinerNY ==
    [display_name |-> <<"D","i","n","e","r",","," ","N","e","w"," ","Y","o","r","k">>,
     lat          |-> <<"4","2",".","6","5">>,
     lon          |-> <<"-","7","3",".","7","5">>,
     importance   |-> <<"0",".","9">>,
     type         |-> "restaurant",
     class        |-> "amenity",
     address      |-> [state |-> "New York"],
     boundingbox  |-> <<>>]

\* out of region, no type, class not allowed
DinerOR ==
    [display_name |-> <<"D","i","n","e","r",","," ","O","r","e","g","o","n">>,
     lat          |-> <<"4","4",".","9","4">>,
     lon          |-> <<"-","1","2","3",".","0","4">>,
     importance   |-> <<"0",".","9">>,
     type         |-> Undefined,
     class        |-> "amenity",
     address      |-> [state |-> "Oregon"],
     boundingbox  |-> <<>>]

\* in region by ', ny'; a peak
MarcyNY ==
    [display_name |-> <<"M","o","u","n","t"," ","M","a","r","c","y",","," ","N","Y">>,
     lat          |-> <<"4","4",".","1","1">>,
     lon          |-> <<"-","7","3",".","9","2">>,
     importance   |-> <<"0",".","5">>,
     type         |-> "peak",
     class        |-> "natural",
     address      |-> [state |-> Undefined],
     boundingbox  |-> <<>>]

\* out of region, class boundary, type protected_area
YellowstoneWY ==
    [display_name |-> <<"Y","e","l","l","o","w","s","t","o","n","e",","," ","W","y","o","m","i","n","g">>,
     lat          |-> <<"4","4",".","6">>,
     lon          |-> <<"-","1","1","0",".","5">>,
     importance   |-> <<"0",".","9">>,
     type         |-> "protected_area",
     class        |-> "boundary",
     address      |-> [state |-> "Wyoming"],
     boundingbox  |-> <<<<"4","4",".","1","3">>, <<"4","5",".","1","1">>, <<"-","1","1","1",".","1","6">>, <<"-","1","0","9",".","8","2">>>>]

RecordPool ==
    {AlbanyNY, AlbanyGA, TroyOH, TroyNY, TahoeCA, DinerNY, DinerOR, MarcyNY,
     YellowstoneWY}

\* the longest upstream array the pipeline check feeds in
MaxData == 4

DataPool == UNION {[1..n -> RecordPool] : n \in 0..MaxData}

(***************************************************************************)
(* The service: cache, throttle, searchLocation, clearCache                *)
(***************************************************************************)
MinRequestInterval == 1000

\* the clock moves in steps of half the interval
TickMs == MinRequestInterval \div 2

\* Date.now() when the service is constructed: lastRequestTime starts at 0 and
\* the epoch clock is far beyond the interval, so the first call never waits
StartTime == MinRequestInterval

\* how many steps the clock takes
MaxTicks == 2

\* how many calls can be in flight together
NumCalls == 2

\* a searchLocation call suspended in throttleRequest, on its timer
Sleeping(q, due) ==
    [op |-> "searchLocation", pc |-> "sleeping", query |-> q, coords |-> <<>>,
     wakeAt |-> due]

\* a searchLocation call suspended on fetch
Fetching(q) ==
    [op |-> "searchLocation", pc |-> "fetching", query |-> q, coords |-> <<>>,
     wakeAt |-> 0]

\* a reverseGeocode call suspended in throttleRequest, on its timer
SleepingReverse(co, due) ==
    [op |-> "reverseGeocode", pc |-> "sleeping", query |-> <<>>, coords |-> co,
     wakeAt |-> due]

\* a reverseGeocode call suspended on fetch
FetchingReverse(co) ==
    [op |-> "reverseGeocode", pc |-> "fetching", query |-> <<>>, coords |-> co,
     wakeAt |-> 0]

StaysAsleep(c) == c

\* throttleRequest goes on after its timer: the call is about to fetch
Woken(c) == [c EXCEPT !.pc = "fetching", !.wakeAt = 0]

NoCalls == EmptyBag

AddCallDropped(b, c) == b

AddCall(b, c) == b (+) SetToBag({c})

KeepCall(b, c) == b

RemoveCall(b, c) == b (-) SetToBag({c})

QueryEmpty  == <<>>
QueryBlank  == <<" ", "\t">>
QueryTroy   == <<"T","r","o","y">>
QueryTroyUp == <<" ","T","R","O","Y"," ">>
QueryA      == <<"a">>

QueryPool == {QueryEmpty, QueryBlank, QueryTroy, QueryTroyUp, QueryA}

\* what fetch() settles with: a response of some status (its body an array of
\* records, or not JSON at all), or a rejection with some thrown value
Response(status, body) ==
    [kind |-> "response", status |-> status, body |-> body, json |-> TRUE,
     isError |-> FALSE, message |-> ""]
Rejection(isError, message) ==
    [kind |-> "rejection", status |-> 0, body |-> <<>>, json |-> FALSE,
     isError |-> isError, message |-> message]

\* the bodies of the 2xx responses: no record, one the main path keeps, one
\* only the fallback keeps, one neither keeps
BodyPool == {<<>>, <<AlbanyNY>>, <<TroyOH>>, <<DinerOR>>}

FetchOutcomes ==
    {Response(200, b) : b \in BodyPool}
        \cup {Response(429, <<>>), Response(500, <<>>)}
        \cup {Rejection(TRUE, "Network error"), Rejection(TRUE, "RATE_LIMIT")}

\* response.ok
ResponseOk(o) == o.status >= 200 /\ o.status <= 299

\* new Error(message)
NewError(message) == [isError |-> TRUE, message |-> message]

NeverThrows(o) == [isError |-> FALSE, message |-> "(nothing thrown)"]

\* What the try block of searchLocation throws for a fetch outcome, or
\* NoThrow when it runs to its return statement.
NoThrow == [isError |-> FALSE, message |-> "(nothing thrown)"]

ThrowsOnNoResults(o) ==
    IF o.kind = "rejection" THEN [isError |-> o.isError, message |-> o.message]
    ELSE IF ~ResponseOk(o)
         THEN (IF o.status = 429 THEN NewError("RATE_LIMIT") ELSE NewError("API_ERROR"))
    ELSE IF ProcessResponse(o.body).list = <<>> THEN NewError("NO_RESULTS")
    ELSE NoThrow

ThrownInTry(o) ==
    IF o.kind = "rejection" THEN [isError |-> o.isError, message |-> o.message]
    ELSE IF ~ResponseOk(o)
         THEN (IF o.status = 429 THEN NewError("RATE_LIMIT") ELSE NewError("API_ERROR"))
    ELSE IF ~o.json THEN NewError("Unexpected token < in JSON at position 0")
    ELSE NoThrow

\* the catch block: the code of the GeocodingError it throws
CatchCode(error) ==
    IF error.isError /\ error.message = "RATE_LIMIT" THEN "RATE_LIMIT"
    ELSE IF error.isError /\ error.message = "API_ERROR" THEN "API_ERROR"
    ELSE "NETWORK_ERROR"

\* how the upstream answered, for the history
UpstreamKind(o) ==
    IF o.kind = "rejection" THEN "transport"
    ELSE IF o.status = 429 THEN "http429"
    ELSE IF ~ResponseOk(o) THEN "httpOther"
    ELSE IF ~o.json THEN "badBody"
    ELSE "http2xx"

EmptyCache == [k \in {} |-> <<>>]

NeverEmptyQuery(q) == FALSE

\* !query.trim()
IsEmptyQuery(q) == Trim(q) = <<>>

CacheKeyUntrimmed(q) == ToLowerCase(q)

\* query.toLowerCase().trim()
CacheKey(q) == Trim(ToLowerCase(q))

\* this.cache.has(key)
CacheHas(c, key) == key \in DOMAIN c

CacheSetEmptyList(c, key, value) ==
    [k \in DOMAIN c \cup {key} |-> IF k = key THEN <<>> ELSE c[k]]

CacheSetNothing(c, key, value) == c

\* the first list stored under a key stays
CacheSetIfAbsent(c, key, value) ==
    [k \in DOMAIN c \cup {key} |-> IF k \in DOMAIN c THEN c[k] ELSE value]

\* this.cache.set(key, value)
CacheSet(c, key, value) ==
    [k \in DOMAIN c \cup {key} |-> IF k = key THEN value ELSE c[k]]

ClearNothing(c) == c

\* this.cache.clear()
CacheClear(c) == EmptyCache

\* throttleRequest: the time since the last request, and the delay it asks for
TimeSinceLastRequest == now - lastRequestTime

ThrottleNeverWaits == FALSE

ThrottleWaits == TimeSinceLastRequest < MinRequestInterval

HalfDelay == (MinRequestInterval - TimeSinceLastRequest) \div 2

ThrottleDelay == MinRequestInterval - TimeSinceLastRequest

\* history records: which operation completed last, how, and with what
NothingSettled ==
    [op |-> "none", via |-> "none", query |-> <<>>, requests |-> 0,
     status |-> "none", list |-> <<>>, code |-> "none", upstream |-> "none",
     respelled |-> FALSE,
     coords |-> <<>>, received |-> 0]

Resolved(via, q, n, list, upstream, respelled) ==
    [op |-> "searchLocation", via |-> via, query |-> q, requests |-> n,
     status |-> "resolved", list |-> list, code |-> "none", upstream |-> upstream,
     respelled |-> respelled,
     coords |-> <<>>, received |-> 0]

Rejected(q, code, upstream) ==
    [op |-> "searchLocation", via |-> "upstream", query |-> q, requests |-> 1,
     status |-> "rejected", list |-> <<>>, code |-> code, upstream |-> upstream,
     respelled |-> FALSE,
     coords |-> <<>>, received |-> 0]

Cleared ==
    [op |-> "clearCache", via |-> "none", query |-> <<>>, requests |-> 0,
     status |-> "resolved", list |-> <<>>, code |-> "none", upstream |-> "none",
     respelled |-> FALSE,
     coords |-> <<>>, received |-> 0]

\* coordinate pairs (latitude, longitude), in units of 1/Scale
CoordsAlbany == <<426803, -738370>>
CoordsTroyOH == <<400395, -842033>>

CoordsPool == {CoordsAlbany, CoordsTroyOH}

\* a reverse-lookup body without display_name
NoDisplayName == [TroyOH EXCEPT !.display_name = <<>>]

\* the bodies of the 2xx reverse responses: one (out-of-region) record, or an
\* object without display_name
ReverseBodyPool == {TroyOH, NoDisplayName}

\* what the fetch() of reverseGeocode settles with
ReverseOutcomes ==
    {[Response(200, <<>>) EXCEPT !.body = b] : b \in ReverseBodyPool}
        \cup {[Response(429, <<>>) EXCEPT !.body = NoDisplayName],
              [Response(500, <<>>) EXCEPT !.body = NoDisplayName],
              [Rejection(TRUE, "Network error") EXCEPT !.body = NoDisplayName]}

IconPin == "round_pushpin"              \* U+1F4CD

\* the try block of reverseGeocode throws (fetch rejects, or response.json()
\* does)
ReverseThrows(o) == o.kind = "rejection" \/ (ResponseOk(o) /\ ~o.json)

ReverseNullOnlyWhenThrown(o) == ReverseThrows(o)

ReverseNullUnlessUnnamed(o) == ReverseThrows(o) \/ ~ResponseOk(o)

\* reverseGeocode returns null: from the catch block, for a response that is
\* not ok, or for a body without display_name
ReverseReturnsNull(o) ==
    \/ ReverseThrows(o)
    \/ ~ResponseOk(o)
    \/ o.body.display_name = <<>>

ReverseLocationAsFallback(d) == FallbackMapItem(d)

\* the LocationResult reverseGeocode builds from the response body
ReverseLocation(d) ==
    [displayName     |-> d.display_name,
     latitude        |-> ParseFloat(d.lat),
     longitude       |-> ParseFloat(d.lon),
     bbox            |-> BBoxOf(d),
     importance      |-> ImportanceOf(d),
     type            |-> TypeOf(d),
     featureCategory |-> "administrative",
     icon            |-> IconPin]

\* history: a reverseGeocode call has settled (list is empty for null)
ReverseSettled(co, o) ==
    [op |-> "reverseGeocode", via |-> "upstream", query |-> <<>>, requests |-> 1,
     status |-> "resolved",
     list |-> IF ReverseReturnsNull(o) THEN <<>> ELSE <<ReverseLocation(o.body)>>,
     code |-> "none", upstream |-> UpstreamKind(o), respelled |-> FALSE,
     coords |-> co, received |-> 0]

NoPopularLocations == <<>>

\* the list getPopularNYLocations returns
PopularNYLocations ==
    << [displayName |-> <<"A","l","b","a","n","y",","," ","A","l","b","a","n","y"," ","C","o","u","n","t","y",","," ","N","e","w"," ","Y","o","r","k">>,
        latitude |-> 426803, longitude |-> -738370, bbox |-> <<>>,
        importance |-> 8000, type |-> "city",
        featureCategory |-> "administrative", icon |-> IconDefault],
       [displayName |-> <<"S","y","r","a","c","u","s","e",","," ","O","n","o","n","d","a","g","a"," ","C","o","u","n","t","y",","," ","N","e","w"," ","Y","o","r","k">>,
        latitude |-> 430481, longitude |-> -761474, bbox |-> <<>>,
        importance |-> 8000, type |-> "city",
        featureCategory |-> "administrative", icon |-> IconDefault],
       [displayName |-> <<"B","u","f","f","a","l","o",","," ","E","r","i","e"," ","C","o","u","n","t","y",","," ","N","e","w"," ","Y","o","r","k">>,
        latitude |-> 428864, longitude |-> -788784, bbox |-> <<>>,
        importance |-> 8000, type |-> "city",
        featureCategory |-> "administrative", icon |-> IconDefault],
       [displayName |-> <<"R","o","c","h","e","s","t","e","r",","," ","M","o","n","r","o","e"," ","C","o","u","n","t","y",","," ","N","e","w"," ","Y","o","r","k">>,
        latitude |-> 431566, longitude |-> -776088, bbox |-> <<>>,
        importance |-> 8000, type |-> "city",
        featureCategory |-> "administrative", icon |-> IconDefault],
       [displayName |-> <<"A","d","i","r","o","n","d","a","c","k"," ","P","a","r","k",","," ","N","e","w"," ","Y","o","r","k">>,
        latitude |-> 438041, longitude |-> -742651,
        bbox |-> <<-753000, 430000, -733000, 449000>>,
        importance |-> 9000, type |-> "protected_area",
        featureCategory |-> "natural", icon |-> IconTree],
       [displayName |-> <<"C","a","t","s","k","i","l","l"," ","M","o","u","n","t","a","i","n","s",","," ","N","e","w"," ","Y","o","r","k">>,
        latitude |-> 421834, longitude |-> -742651,
        bbox |-> <<-750000, 418000, -735000, 425000>>,
        importance |-> 9000, type |-> "mountain_range",
        featureCategory |-> "natural", icon |-> IconPeak] >>

\* history: getPopularNYLocations has returned
PopularReturned(list) ==
    [op |-> "getPopularNYLocations", via |-> "none", query |-> <<>>, requests |-> 0,
     status |-> "resolved", list |-> list, code |-> "none", upstream |-> "none",
     respelled |-> FALSE, coords |-> <<>>, received |-> 0]

\* history: q follows a call that resolved from the upstream for the same
\* normalized text, spelled differently
Respells(q) ==
    /\ lastSettled.op = "searchLocation"
    /\ lastSettled.via = "upstream"
    /\ lastSettled.status = "resolved"
    /\ lastSettled.query # q
    /\ Trim(ToLowerCase(lastSettled.query)) = Trim(ToLowerCase(q))

\* history: a call starts on its way to the upstream
CallStarts ==
    backToBack' = IF backToBack = "first" /\ BagCardinality(calls) = 1
                  THEN "both" ELSE "first"

\* history: a step that starts no such call
NoCallStarts == backToBack' = IF backToBack = "first" THEN "none" ELSE backToBack

\* useRef(null) of hideTimeoutRef, and the timer setTimeout returns, due at a
\* time
NoHideTimeout == [set |-> FALSE, due |-> 0]
HideTimeout(due) == [set |-> TRUE, due |-> due]

\* the map as mounted: no tooltip shown, the pointer off the map
InitialTip ==
    [pointer               |-> "outside",  \* where the pointer is
     display               |-> FALSE,      \* tooltipRef.current.style.display is 'block'
     isHoveringTooltipRef  |-> FALSE,
     currentCampsiteRef    |-> "null",
     hideTimeoutRef        |-> NoHideTimeout,
     timers                |-> {},         \* the hide timers set and not yet run,
                                           \* by the time each is due
     t                     |-> 0,          \* the clock (ms)
     awaySince             |-> 0,          \* history: since when the pointer has
                                           \* been off marker and tooltip (-1:
                                           \* it is on one)
     scheduledAt           |-> 0,          \* history: when scheduleHide last ran
     hiddenAt              |-> -1]         \* history: when a tooltip on show
                                           \* was last hidden

\* useRef(null) of debounceRef, and the timer setTimeout returns for a value
\* typed, due at a time
NoTimer == [set |-> FALSE, value |-> <<>>, due |-> 0]
TimerFor(value, due) == [set |-> TRUE, value |-> value, due |-> due]

\* error: null
NoError == "null"

\* the useState and useRef initial values of LocationSearchBar
InitialBar ==
    [query                 |-> <<>>,
     suggestions           |-> <<>>,
     loading               |-> FALSE,
     error                 |-> NoError,
     showSuggestions       |-> FALSE,
     activeSuggestionIndex |-> -1,
     debounceRef           |-> NoTimer,
     timers                |-> EmptyBag,   \* the debounce timers set and not yet fired
     searches              |-> EmptyBag,   \* the performSearch calls awaiting
     typed                 |-> [value |-> <<>>, at |-> 0],  \* history: the last
                                           \* input change and its time
     showPopularLocations  |-> TRUE,       \* the prop, with its default
     selected              |-> <<>>]       \* what onLocationSelected was last
                                           \* called with, as a list of one

Init ==
    /\ cache = EmptyCache
    /\ lastRequestTime = 0
    /\ now = StartTime
    /\ calls = NoCalls
    /\ lastSettled = NothingSettled
    /\ clearPending = "no"
    /\ sequential = TRUE
    /\ backToBack = "none"
    /\ lastDispatch = 0
    /\ data = <<>>
    /\ out = [path |-> "none", list |-> <<>>]
    /\ bar = InitialBar
    /\ tip = InitialTip

\* searchLocation(q) up to its first macrotask suspension: the empty-query
\* return, the cache hit, or throttleRequest.  With a wait due the call sleeps
\* on its timer; with none, throttleRequest sets the marker and returns, and
\* the call goes on (in microtasks, before any timer or response is handled)
\* to call fetch.
SearchLocation(q) ==
    /\ IF IsEmptyQuery(q)
       THEN /\ lastSettled' = Resolved("empty", q, 0, <<>>, "none", FALSE)
            /\ NoCallStarts
            /\ UNCHANGED lastDispatch
            /\ UNCHANGED <<cache, lastRequestTime, calls, clearPending, sequential>>
       ELSE IF CacheHas(cache, CacheKey(q))
       THEN /\ lastSettled' = Resolved("cache", q, 0, cache[CacheKey(q)], "none", Respells(q))
            /\ clearPending' = "no"
            /\ NoCallStarts
            /\ UNCHANGED lastDispatch
            /\ UNCHANGED <<cache, lastRequestTime, calls, sequential>>
       ELSE /\ BagCardinality(calls) < NumCalls
            /\ clearPending' = "no"
            /\ sequential' = (sequential /\ calls = NoCalls)
            /\ CallStarts
            /\ IF ThrottleWaits
               THEN /\ calls' = AddCall(calls, Sleeping(q, now + ThrottleDelay))
                    /\ UNCHANGED lastDispatch
                    /\ UNCHANGED lastRequestTime
               ELSE /\ calls' = AddCall(calls, Fetching(q))
                    /\ lastDispatch' = now
                    /\ lastRequestTime' = now
            /\ UNCHANGED <<cache, lastSettled>>
    /\ UNCHANGED <<now, data, out, bar, tip>>

\* reverseGeocode(latitude, longitude) up to its first macrotask suspension:
\* throttleRequest, then fetch
ReverseGeocode(co) ==
    /\ BagCardinality(calls) < NumCalls
    /\ sequential' = (sequential /\ calls = NoCalls)
    /\ CallStarts
    /\ IF ThrottleWaits
       THEN /\ calls' = AddCall(calls, SleepingReverse(co, now + ThrottleDelay))
            /\ UNCHANGED lastDispatch
            /\ UNCHANGED lastRequestTime
       ELSE /\ calls' = AddCall(calls, FetchingReverse(co))
            /\ lastDispatch' = now
            /\ lastRequestTime' = now
    /\ UNCHANGED <<cache, now, lastSettled, clearPending, data, out, bar, tip>>

\* the throttle timer of call c fires: throttleRequest sets the marker and
\* returns, and its caller (searchLocation or reverseGeocode) calls fetch
TimerFires(c) ==
    /\ BagIn(c, calls)
    /\ c.pc = "sleeping"
    /\ now >= c.wakeAt
    /\ lastRequestTime' = now
    /\ calls' = AddCall(RemoveCall(calls, c), Woken(c))
    /\ lastDispatch' = now
    /\ NoCallStarts
    /\ UNCHANGED <<cache, now, lastSettled, clearPending, sequential, data, out, bar, tip>>

\* the fetch of the reverseGeocode call c settles with o: the rest of
\* reverseGeocode, to its return
RespondReverse(c, o) ==
    /\ BagIn(c, calls)
    /\ c.op = "reverseGeocode"
    /\ c.pc = "fetching"
    /\ calls' = RemoveCall(calls, c)
    /\ lastSettled' = ReverseSettled(c.coords, o)
    /\ NoCallStarts
    /\ UNCHANGED lastDispatch
    /\ UNCHANGED <<cache, lastRequestTime, now, clearPending, sequential, data, out, bar, tip>>

\* getPopularNYLocations()
GetPopularNYLocations ==
    /\ lastSettled' = PopularReturned(PopularNYLocations)
    /\ NoCallStarts
    /\ UNCHANGED lastDispatch
    /\ UNCHANGED <<cache, lastRequestTime, now, calls, clearPending, sequential, data, out, bar, tip>>

\* the fetch of the searchLocation call c settles with o: the rest of
\* searchLocation, to its return or throw
Respond(c, o) ==
    /\ BagIn(c, calls)
    /\ c.op = "searchLocation"
    /\ c.pc = "fetching"
    /\ calls' = RemoveCall(calls, c)
    /\ NoCallStarts
    /\ UNCHANGED lastDispatch
    /\ IF ThrownInTry(o) = NoThrow
       THEN /\ cache' = CacheSet(cache, CacheKey(c.query), ProcessResponse(o.body).list)
            /\ lastSettled' = [Resolved("upstream", c.query, 1,
                                        ProcessResponse(o.body).list, UpstreamKind(o), FALSE)
                                   EXCEPT !.received = Len(o.body)]
            /\ clearPending' = IF clearPending = "clean" THEN "stored" ELSE clearPending
       ELSE /\ lastSettled' = Rejected(c.query, CatchCode(ThrownInTry(o)), UpstreamKind(o))
            /\ UNCHANGED <<cache, clearPending>>
    /\ UNCHANGED <<lastRequestTime, now, sequential, data, out, bar, tip>>

\* clearCache()
ClearCache ==
    /\ cache' = CacheClear(cache)
    /\ lastSettled' = Cleared
    /\ clearPending' = "clean"
    /\ NoCallStarts
    /\ UNCHANGED lastDispatch
    /\ UNCHANGED <<lastRequestTime, now, calls, sequential, data, out, bar, tip>>

\* time passes
Tick ==
    /\ now < StartTime + MaxTicks * TickMs
    /\ now' = now + TickMs
    /\ NoCallStarts
    /\ UNCHANGED lastDispatch
    /\ UNCHANGED <<cache, lastRequestTime, calls, lastSettled, clearPending, sequential,
                   data, out, bar, tip>>

Next ==
    \/ \E q \in QueryPool : SearchLocation(q)
    \/ \E c \in BagToSet(calls) : TimerFires(c)
    \/ \E c \in BagToSet(calls), o \in FetchOutcomes : Respond(c, o)
    \/ \E co \in CoordsPool : ReverseGeocode(co)
    \/ \E c \in BagToSet(calls), o \in ReverseOutcomes : RespondReverse(c, o)
    \/ GetPopularNYLocations
    \/ ClearCache
    \/ Tick

Spec == Init /\ [][Next]_vars

\* the runtime keeps running callbacks and calls while there are any to run
SpecFair == Spec /\ WF_vars(Next)

(***************************************************************************)
(* Claims about the service, checked under Spec                            *)
(***************************************************************************)
\* the claims' own reading of "lower-cased and trimmed"
NormalizedKey(q) == Trim(ToLowerCase(q))

\* the calls of a bag that are suspended on fetch
FetchingCalls(b) == {c \in BagToSet(b) : c.pc = "fetching"}

\* this step issues an upstream request (some call enters fetch)
RequestIssued ==
    \E c \in FetchingCalls(calls') : CopiesIn(c, calls') > CopiesIn(c, calls)

\* this step leaves one more call in flight: the call that starts in it is on
\* its way to the upstream (it waits for its throttle timer or has called fetch)
UpstreamBound == BagCardinality(calls') = BagCardinality(calls) + 1

\* C1: a query whose trimmed text is empty resolves to [], with no upstream
\* request, and leaves the cache and the throttle marker as they were.
C1_EmptyQueryNoEffect ==
    [][\A q \in QueryPool :
          (SearchLocation(q) /\ Trim(q) = <<>>)
          => /\ lastSettled'.status = "resolved"
             /\ lastSettled'.query = q
             /\ lastSettled'.list = <<>>
             /\ ~RequestIssued
             /\ calls' = calls
             /\ cache' = cache
             /\ lastRequestTime' = lastRequestTime]_vars

\* a whitespace-only query has resolved to [] while the cache held an entry
\* and another call was in flight
C1_Witness ==
    /\ lastSettled.via = "empty"
    /\ lastSettled.query = QueryBlank
    /\ lastSettled.list = <<>>
    /\ cache # EmptyCache
    /\ calls # NoCalls

\* C2: when the normalized key is in the cache, searchLocation returns the
\* cached list, issues no upstream request, does not wait on the throttle and
\* changes neither the marker nor the cache.
C2_CacheHitNoEffect ==
    [][\A q \in QueryPool :
          (SearchLocation(q) /\ NormalizedKey(q) \in DOMAIN cache)
          => /\ lastSettled'.status = "resolved"
             /\ lastSettled'.query = q
             /\ lastSettled'.list = cache[NormalizedKey(q)]
             /\ ~RequestIssued
             /\ calls' = calls
             /\ cache' = cache
             /\ lastRequestTime' = lastRequestTime]_vars

\* a hit for a query spelled with capitals and blanks, at a moment when the
\* throttle would have made an upstream-bound call wait
C2_Witness ==
    /\ lastSettled.via = "cache"
    /\ lastSettled.query = QueryTroyUp
    /\ lastSettled.list # <<>>
    /\ lastSettled.list = cache[NormalizedKey(QueryTroyUp)]
    /\ ThrottleWaits

\* the number of upstream requests of the call that starts in this step:
\* none when it settles at once, one when it goes on to the upstream
RequestsOfCall == IF UpstreamBound THEN 1 ELSE 0

\* C3 (as claimed): two consecutive calls whose queries are equal after
\* lower-casing and trimming, the first of which went to the upstream, issue
\* exactly one upstream request in total.
C3_ConsecutiveSameKeyOneRequest ==
    [][\A q \in QueryPool :
          (/\ SearchLocation(q)
           /\ lastSettled.op = "searchLocation"
           /\ lastSettled.via = "upstream"
           /\ NormalizedKey(lastSettled.query) = NormalizedKey(q))
          => lastSettled.requests + RequestsOfCall = 1]_vars

\* C3 (amended): ... when the first call resolved, the second is answered
\* from the cache entry the first one stored: one request in total.
C3_ConsecutiveSameKeyAfterSuccess ==
    [][\A q \in QueryPool :
          (/\ SearchLocation(q)
           /\ lastSettled.op = "searchLocation"
           /\ lastSettled.via = "upstream"
           /\ lastSettled.status = "resolved"
           /\ NormalizedKey(lastSettled.query) = NormalizedKey(q))
          => /\ lastSettled.requests + RequestsOfCall = 1
             /\ ~RequestIssued
             /\ lastSettled'.via = "cache"
             /\ lastSettled'.list = lastSettled.list]_vars

\* the second call of such a pair, spelled differently from the first, has
\* been answered from the cache
C3_Witness ==
    /\ lastSettled.via = "cache"
    /\ lastSettled.respelled
    /\ lastSettled.list # <<>>

\* C4 (as claimed): the first searchLocation call for a non-empty query after
\* clearCache issues an upstream request, whatever calls were in flight at the
\* clear.
C4_AfterClearNextCallFetches ==
    [][\A q \in QueryPool :
          (SearchLocation(q) /\ clearPending # "no" /\ Trim(q) # <<>>)
          => UpstreamBound]_vars

\* C4 (amended): ... provided no call that was in flight at the clear has
\* stored its result before that next call starts.
C4_AfterClearNextCallFetchesUnlessStored ==
    [][\A q \in QueryPool :
          (SearchLocation(q) /\ clearPending = "clean" /\ Trim(q) # <<>>)
          => UpstreamBound]_vars

\* nothing has completed since clearCache, and the call started since is on
\* its way to the upstream beside a call that was in flight at the clear
C4_Witness ==
    /\ lastSettled = Cleared
    /\ clearPending = "no"
    /\ BagCardinality(calls) >= 2

\* C10 (as claimed): RATE_LIMIT exactly for HTTP 429, API_ERROR exactly for
\* any other non-2xx status, NETWORK_ERROR for every transport failure.
C10_ErrorCodeFollowsUpstream ==
    (lastSettled.op = "searchLocation" /\ lastSettled.via = "upstream")
    => /\ lastSettled.code = "RATE_LIMIT" <=> lastSettled.upstream = "http429"
       /\ lastSettled.code = "API_ERROR" <=> lastSettled.upstream = "httpOther"
       /\ lastSettled.upstream = "transport" => lastSettled.code = "NETWORK_ERROR"

\* the last operation to complete was a searchLocation call that rejected
LastRejected ==
    /\ lastSettled.op = "searchLocation"
    /\ lastSettled.status = "rejected"

\* C11 (as claimed): a searchLocation call that rejects leaves the cache
\* unchanged, and the identical query repeated after the failure issues a new
\* upstream request.
C11_RejectionKeepsCacheRetryFetches ==
    [][/\ \A c \in BagToSet(calls), o \in FetchOutcomes :
             (Respond(c, o) /\ UpstreamKind(o) # "http2xx")
             => (lastSettled'.status = "rejected" /\ cache' = cache)
       /\ \A q \in QueryPool :
             (SearchLocation(q) /\ LastRejected /\ lastSettled.query = q)
             => UpstreamBound]_vars

\* C11 (amended): a searchLocation call that rejects leaves the cache
\* unchanged, and the identical query repeated after the failure issues a new
\* upstream request unless another call has stored an entry for its key.
C11_RejectionKeepsCacheRetryFetchesOnMiss ==
    [][/\ \A c \in BagToSet(calls), o \in FetchOutcomes :
             (Respond(c, o) /\ UpstreamKind(o) # "http2xx")
             => (lastSettled'.status = "rejected" /\ cache' = cache)
       /\ \A q \in QueryPool :
             (/\ SearchLocation(q) /\ LastRejected /\ lastSettled.query = q
              /\ NormalizedKey(q) \notin DOMAIN cache)
             => (UpstreamBound /\ cache' = cache)]_vars

\* callers that never overlap: a call has rejected, leaving the entry of
\* another key in the cache, and the same query is on its way to the upstream
\* again
C11_Witness ==
    /\ sequential
    /\ LastRejected
    /\ lastSettled.query = QueryTroy
    /\ cache # EmptyCache
    /\ NormalizedKey(QueryTroy) \notin DOMAIN cache
    /\ \E c \in BagToSet(calls) : c.op = "searchLocation" /\ c.query = QueryTroy

\* the last operation to complete was a searchLocation call that reached the
\* upstream and resolved
LastResolvedUpstream ==
    /\ lastSettled.op = "searchLocation"
    /\ lastSettled.via = "upstream"
    /\ lastSettled.status = "resolved"

\* C12: a searchLocation call that reaches the upstream and resolves stores
\* exactly the list it returns under the normalized query key (and touches no
\* other entry), and the identical query that follows is answered from the
\* cache with that list.
C12_ResolvedCallStoresItsList ==
    [][/\ \A c \in BagToSet(calls), o \in FetchOutcomes :
             (Respond(c, o) /\ lastSettled'.status = "resolved")
             => /\ DOMAIN cache' = DOMAIN cache \cup {NormalizedKey(c.query)}
                /\ cache'[NormalizedKey(c.query)] = lastSettled'.list
                /\ \A k \in DOMAIN cache \ {NormalizedKey(c.query)} : cache'[k] = cache[k]
       /\ \A q \in QueryPool :
             (SearchLocation(q) /\ LastResolvedUpstream /\ lastSettled.query = q)
             => /\ lastSettled'.via = "cache"
                /\ lastSettled'.list = lastSettled.list
                /\ ~RequestIssued
                /\ calls' = calls]_vars

\* a fallback list, stored by the call that returned it, has answered the
\* same query from the cache
C12_Witness ==
    /\ lastSettled.op = "searchLocation"
    /\ lastSettled.via = "cache"
    /\ lastSettled.query = QueryTroy
    /\ lastSettled.list = FallbackResults(<<TroyOH>>)
    /\ lastSettled.list # <<>>
    /\ cache[NormalizedKey(QueryTroy)] = lastSettled.list

\* how many calls of a bag are suspended on fetch (each has issued its one
\* request and awaits the answer)
NumFetching(b) == BagCardinality([c \in FetchingCalls(b) |-> b[c]])

\* the codes GeocodingError declares
GeocodingErrorCodes == {"NETWORK_ERROR", "NO_RESULTS", "API_ERROR", "RATE_LIMIT"}

\* C13: a searchLocation call issues at most one upstream request and settles
\* exactly once.  It settles at once without a request, or goes on to the
\* upstream; a waiting call issues its request when its timer fires; the
\* answer ends the call, which resolves with a list or rejects with one
\* GeocodingError and no list, and is not issued again.
C13_OneRequestOneSettlement ==
    [][/\ \A q \in QueryPool :
             SearchLocation(q)
             => \/ /\ calls' = calls
                   /\ lastSettled'.status = "resolved"
                   /\ lastSettled'.requests = 0
                \/ /\ BagCardinality(calls') = BagCardinality(calls) + 1
                   /\ NumFetching(calls') \in {NumFetching(calls), NumFetching(calls) + 1}
                   /\ lastSettled' = lastSettled
       /\ \A c \in BagToSet(calls) :
             (TimerFires(c) /\ c.op = "searchLocation")
             => /\ BagCardinality(calls') = BagCardinality(calls)
                /\ NumFetching(calls') = NumFetching(calls) + 1
                /\ lastSettled' = lastSettled
       /\ \A c \in BagToSet(calls), o \in FetchOutcomes :
             Respond(c, o)
             => /\ BagCardinality(calls') = BagCardinality(calls) - 1
                /\ NumFetching(calls') = NumFetching(calls) - 1
                /\ CopiesIn(c, calls') = CopiesIn(c, calls) - 1
                /\ lastSettled'.requests = 1
                /\ \/ /\ lastSettled'.status = "resolved"
                      /\ lastSettled'.code = "none"
                   \/ /\ lastSettled'.status = "rejected"
                      /\ lastSettled'.code \in GeocodingErrorCodes
                      /\ lastSettled'.list = <<>>]_vars

\* a request issued after the clock had advanced was answered with a failure:
\* the call has rejected, and nothing of it is left in flight
C13_Witness ==
    /\ LastRejected
    /\ lastSettled.code = "API_ERROR"
    /\ lastSettled.requests = 1
    /\ lastSettled.list = <<>>
    /\ lastRequestTime > StartTime
    /\ calls = NoCalls

\* C14: reverseGeocode never rejects; when the upstream fails (a status that
\* is not 2xx, 429 included, or a transport failure) it resolves to null.
C14_ReverseNeverRejects ==
    [][\A c \in BagToSet(calls), o \in ReverseOutcomes :
          RespondReverse(c, o)
          => /\ lastSettled'.op = "reverseGeocode"
             /\ lastSettled'.status = "resolved"
             /\ lastSettled'.code = "none"
             /\ UpstreamKind(o) # "http2xx" => lastSettled'.list = <<>>]_vars

\* a reverse lookup answered with HTTP 429 has resolved to null
C14_Witness ==
    /\ lastSettled.op = "reverseGeocode"
    /\ lastSettled.upstream = "http429"
    /\ lastSettled.status = "resolved"
    /\ lastSettled.list = <<>>

\* C15: every reverseGeocode call goes to the upstream, whatever the cache
\* holds and whatever was looked up before, issues one request, and leaves
\* the cache as it was at each of its steps.
C15_ReverseOneRequestNoCache ==
    [][/\ \A co \in CoordsPool :
             ReverseGeocode(co)
             => /\ UpstreamBound
                /\ NumFetching(calls') \in {NumFetching(calls), NumFetching(calls) + 1}
                /\ cache' = cache
                /\ lastSettled' = lastSettled
       /\ \A c \in BagToSet(calls) :
             (TimerFires(c) /\ c.op = "reverseGeocode")
             => /\ BagCardinality(calls') = BagCardinality(calls)
                /\ NumFetching(calls') = NumFetching(calls) + 1
                /\ cache' = cache
       /\ \A c \in BagToSet(calls), o \in ReverseOutcomes :
             RespondReverse(c, o)
             => /\ BagCardinality(calls') = BagCardinality(calls) - 1
                /\ NumFetching(calls') = NumFetching(calls) - 1
                /\ lastSettled'.requests = 1
                /\ cache' = cache]_vars

\* callers that never overlap: a lookup of the Albany coordinates has been
\* answered with a record, the cache holds entries, and the same coordinates
\* are on their way to the upstream again
C15_Witness ==
    /\ sequential
    /\ lastSettled.op = "reverseGeocode"
    /\ lastSettled.coords = CoordsAlbany
    /\ lastSettled.list # <<>>
    /\ cache # EmptyCache
    /\ \E c \in BagToSet(calls) : c.op = "reverseGeocode" /\ c.coords = CoordsAlbany

\* C16 (as claimed): a successful reverse lookup returns the record of the
\* response, unfiltered, tagged administrative and with the icon searchLocation
\* gives a default administrative result.
C16_ReverseResultDefaultIcon ==
    [][\A c \in BagToSet(calls), o \in ReverseOutcomes :
          (RespondReverse(c, o) /\ UpstreamKind(o) = "http2xx" /\ o.body.display_name # <<>>)
          => /\ Len(lastSettled'.list) = 1
             /\ lastSettled'.list[1].displayName = o.body.display_name
             /\ lastSettled'.list[1].featureCategory = "administrative"
             /\ lastSettled'.list[1].icon = IconDefault]_vars

\* C16 (amended): ... tagged administrative and with the pin icon, which is
\* not the icon searchLocation gives a default administrative result.
C16_ReverseResultPinIcon ==
    [][\A c \in BagToSet(calls), o \in ReverseOutcomes :
          (RespondReverse(c, o) /\ UpstreamKind(o) = "http2xx" /\ o.body.display_name # <<>>)
          => /\ Len(lastSettled'.list) = 1
             /\ lastSettled'.list[1].displayName = o.body.display_name
             /\ lastSettled'.list[1].latitude = ParseFloat(o.body.lat)
             /\ lastSettled'.list[1].longitude = ParseFloat(o.body.lon)
             /\ lastSettled'.list[1].type = TypeOf(o.body)
             /\ lastSettled'.list[1].featureCategory = "administrative"
             /\ lastSettled'.list[1].icon = IconPin
             /\ IconPin # IconDefault
             /\ IconPin # Icon(o.body)]_vars

\* a reverse lookup has returned a record outside the region, under its own
\* name and with the pin icon
C16_Witness ==
    /\ lastSettled.op = "reverseGeocode"
    /\ Len(lastSettled.list) = 1
    /\ ~IsInNY(TroyOH)
    /\ lastSettled.list[1].displayName = TroyOH.display_name
    /\ lastSettled.list[1].icon = IconPin

\* the calls of a bag that wait on their throttle timer
SleepingCalls(b) == {c \in BagToSet(b) : c.pc = "sleeping"}

\* C17: for callers that never overlap (searchLocation cache misses and
\* reverseGeocode calls in any mix), a call that finds less than 1000 ms
\* elapsed since the marker waits for the remaining delta and then sets the
\* marker to the current time; a call that finds more sets it at once; and
\* every upstream request is dispatched at least 1000 ms after the one before.
C17_SequentialCallersSpaced ==
    [][/\ (UpstreamBound /\ sequential' /\ now - lastRequestTime < MinRequestInterval)
          => /\ ~RequestIssued
             /\ lastRequestTime' = lastRequestTime
             /\ \A c \in SleepingCalls(calls') :
                   c.wakeAt = now + (MinRequestInterval - (now - lastRequestTime))
       /\ (UpstreamBound /\ sequential' /\ now - lastRequestTime >= MinRequestInterval)
          => /\ RequestIssued
             /\ lastRequestTime' = now
       /\ \A c \in BagToSet(calls) :
             (TimerFires(c) /\ sequential)
             => /\ now >= c.wakeAt
                /\ RequestIssued
                /\ lastRequestTime' = now
       /\ (RequestIssued /\ sequential')
          => now - lastRequestTime >= MinRequestInterval]_vars

\* callers that never overlap: after a search that went to the upstream, a
\* reverse lookup has waited and its request left 1000 ms after the search's
C17_Witness ==
    /\ sequential
    /\ lastSettled.op = "searchLocation"
    /\ lastSettled.via = "upstream"
    /\ lastRequestTime = StartTime + MinRequestInterval
    /\ \E co \in CoordsPool : BagIn(FetchingReverse(co), calls)

\* C18 (as claimed): of two calls started in consecutive steps (so at the
\* same clock reading, the first still in flight), with no call started
\* since, the one whose timer fires last has its request dispatched at least
\* 1000 ms after the request of the other.
C18_BackToBackCallsSpaced ==
    [][\A c \in BagToSet(calls) :
          (/\ TimerFires(c)
           /\ backToBack = "both"
           /\ SleepingCalls(calls') = {})
          => now - lastRequestTime >= MinRequestInterval]_vars

\* C19: getPopularNYLocations returns its fixed list (Albany at 42.6803,
\* -73.8370, Syracuse, Buffalo, Rochester, an Adirondack and a Catskill entry)
\* in one step, in whatever state it is called, issues no request and leaves
\* the cache, the marker and the calls in flight as they were.
C19_PopularListFixedNoEffect ==
    [][GetPopularNYLocations
          => /\ lastSettled'.status = "resolved"
             /\ Len(lastSettled'.list) = 6
             /\ \E i \in 1..Len(lastSettled'.list) :
                   /\ Includes(lastSettled'.list[i].displayName, <<"A","l","b","a","n","y">>)
                   /\ lastSettled'.list[i].latitude = 426803
                   /\ lastSettled'.list[i].longitude = -738370
             /\ \E i \in 1..Len(lastSettled'.list) :
                   Includes(lastSettled'.list[i].displayName, <<"S","y","r","a","c","u","s","e">>)
             /\ \E i \in 1..Len(lastSettled'.list) :
                   Includes(lastSettled'.list[i].displayName, <<"B","u","f","f","a","l","o">>)
             /\ \E i \in 1..Len(lastSettled'.list) :
                   Includes(lastSettled'.list[i].displayName, <<"R","o","c","h","e","s","t","e","r">>)
             /\ \E i \in 1..Len(lastSettled'.list) :
                   Includes(lastSettled'.list[i].displayName, <<"A","d","i","r","o","n","d","a","c","k">>)
             /\ \E i \in 1..Len(lastSettled'.list) :
                   Includes(lastSettled'.list[i].displayName, <<"C","a","t","s","k","i","l","l">>)
             /\ lastSettled.op = "getPopularNYLocations" => lastSettled'.list = lastSettled.list
             /\ ~RequestIssued
             /\ calls' = calls
             /\ cache' = cache
             /\ lastRequestTime' = lastRequestTime]_vars

\* the list has been returned while the cache held an entry and a call was
\* waiting on the throttle
C19_Witness ==
    /\ lastSettled.op = "getPopularNYLocations"
    /\ Len(lastSettled.list) = 6
    /\ cache # EmptyCache
    /\ SleepingCalls(calls) # {}

\* the codes searchLocation rejects with
RaisedCodes == {"NETWORK_ERROR", "API_ERROR", "RATE_LIMIT"}

\* C20: a 2xx response of which no record passes the main filter and none the
\* fallback filter (an empty response included) makes searchLocation resolve
\* to [], which it caches; and every rejection carries one of the codes
\* NETWORK_ERROR, API_ERROR, RATE_LIMIT, never NO_RESULTS.
C20_NoMatchResolvesEmpty ==
    [][\A c \in BagToSet(calls), o \in FetchOutcomes :
          Respond(c, o)
          => /\ (/\ UpstreamKind(o) = "http2xx"
                 /\ SelectSeq(o.body, KeepItem) = <<>>
                 /\ SelectSeq(o.body, FallbackKeepItem) = <<>>)
                => /\ lastSettled'.status = "resolved"
                   /\ lastSettled'.list = <<>>
                   /\ cache'[NormalizedKey(c.query)] = <<>>
             /\ lastSettled'.status = "rejected"
                => /\ lastSettled'.code \in RaisedCodes
                   /\ lastSettled'.code # "NO_RESULTS"]_vars

\* a 2xx response with a record that neither filter keeps has made the call
\* resolve to [], now cached under its key
C20_Witness ==
    /\ LastResolvedUpstream
    /\ lastSettled.upstream = "http2xx"
    /\ lastSettled.received = 1
    /\ lastSettled.list = <<>>
    /\ NormalizedKey(lastSettled.query) \in DOMAIN cache
    /\ cache[NormalizedKey(lastSettled.query)] = <<>>

\* C21 (as claimed): a query of one character resolves to [] like an empty
\* query: at once, with no upstream request, whatever the upstream would say.
C21_ShortQueryResolvesEmpty ==
    [][\A q \in QueryPool :
          (SearchLocation(q) /\ Len(Trim(q)) = 1)
          => /\ lastSettled'.status = "resolved"
             /\ lastSettled'.query = q
             /\ lastSettled'.list = <<>>
             /\ ~RequestIssued
             /\ calls' = calls]_vars

\* the fields of a result that hold a value (bbox is undefined when the
\* upstream gave no bounding box)
DefinedFields(r) ==
    (DOMAIN r \ {"bbox"}) \cup (IF r.bbox # <<>> THEN {"bbox"} ELSE {})

\* C23 (as claimed): a result of searchLocation or reverseGeocode has exactly
\* the defined fields displayName, latitude, longitude, importance, type and,
\* when the upstream gave a bounding box, bbox.
C23_ResultHasOnlyTestedFields ==
    lastSettled.op \in {"searchLocation", "reverseGeocode"}
    => \A i \in 1..Len(lastSettled.list) :
          DefinedFields(lastSettled.list[i]) \ {"bbox"}
              = {"displayName", "latitude", "longitude", "importance", "type"}

\* a searchLocation call with the normalized key of q is in flight
SameKeyInFlight(q) ==
    \E c \in BagToSet(calls) :
        c.op = "searchLocation" /\ NormalizedKey(c.query) = NormalizedKey(q)

\* C29: a searchLocation call that starts with its key absent from the cache
\* while another call for the same key is in flight goes to the upstream too
\* (no single-flight), and every call that succeeds writes its own list under
\* the key, over whatever is there: the entry is the list of the call that
\* completed last.
C29_SameKeyMissesEachFetchLastWins ==
    [][/\ \A q \in QueryPool :
             (/\ SearchLocation(q)
              /\ ~IsEmptyQuery(q)
              /\ ~CacheHas(cache, NormalizedKey(q))
              /\ SameKeyInFlight(q))
             => /\ UpstreamBound
                /\ \E c \in BagToSet(calls') :
                      c.query = q /\ CopiesIn(c, calls') > CopiesIn(c, calls)
       /\ \A c \in BagToSet(calls), o \in FetchOutcomes :
             (Respond(c, o) /\ lastSettled'.status = "resolved")
             => /\ CacheHas(cache', NormalizedKey(c.query))
                /\ cache'[NormalizedKey(c.query)] = lastSettled'.list
                /\ lastSettled'.list = ProcessResponse(o.body).list]_vars

\* the first of two calls for one key has stored its list, the second, which
\* started while the key was absent, is still at the upstream
C29_Witness ==
    /\ LastResolvedUpstream
    /\ lastSettled.list # <<>>
    /\ CacheHas(cache, NormalizedKey(lastSettled.query))
    /\ \E c \in FetchingCalls(calls) :
          /\ c.op = "searchLocation"
          /\ NormalizedKey(c.query) = NormalizedKey(lastSettled.query)

\* this step starts a call that skips the throttle delay: it reads the
\* marker, sets it and hands its request to fetch
StartsUndelayed == UpstreamBound /\ RequestIssued

\* one call's request is out and the marker is still the stale value that call
\* read, old enough for the call that reads it next to skip the delay as well
StaleMarkerSkipsDelay ==
    /\ FetchingCalls(calls) # {}
    /\ lastRequestTime < lastDispatch
    /\ now - lastRequestTime >= MinRequestInterval

NotRun == [path |-> "none", list |-> <<>>]

InitPipe ==
    /\ data \in DataPool
    /\ out = NotRun
    /\ cache = EmptyCache
    /\ lastRequestTime = 0
    /\ now = StartTime
    /\ calls = NoCalls
    /\ lastSettled = NothingSettled
    /\ clearPending = "no"
    /\ sequential = TRUE
    /\ backToBack = "none"
    /\ lastDispatch = 0
    /\ bar = InitialBar
    /\ tip = InitialTip

ApplyPipeline ==
    /\ out = NotRun
    /\ out' = ProcessResponse(data)
    /\ UNCHANGED <<data, bar, tip, serviceVars>>

NextPipe == ApplyPipeline

SpecPipe == InitPipe /\ [][NextPipe]_vars

(***************************************************************************)
(* Claims about the pipeline, checked under SpecPipe                       *)
(***************************************************************************)
Indexes(s) == 1..Len(s)

\* the positions of d that pass both tests of the pipeline
BothTests(d) == {i \in Indexes(d) : IsInNY(d[i]) /\ IsRelevantType(d[i])}

\* the k-th smallest member of a set of positions
NthOf(M, k) == CHOOSE i \in M : Cardinality({j \in M : j < i}) = k - 1

MinOf(a, b) == IF a < b THEN a ELSE b

C6_FallbackUsesMainTypeTest ==
    (/\ out.path # "none"
     /\ \A i \in Indexes(data) : ~IsInNY(data[i])
     /\ \E i \in Indexes(data) : IsRelevantType(data[i]))
    => LET M == {i \in Indexes(data) : IsRelevantType(data[i])}
       IN  /\ out.path = "fallback"
           /\ out.list # <<>>
           /\ Len(out.list) = MinOf(FallbackLimit, Cardinality(M))
           /\ \A k \in Indexes(out.list) :
                 out.list[k].displayName = data[NthOf(M, k)].display_name \o OutsideSuffix

\* C7: a fallback result has at most 3 entries, the first matches in upstream
\* order, each named display_name plus the out-of-region suffix and each
\* tagged administrative with the default icon, whatever its type or class.
C7_FallbackShape ==
    out.path = "fallback" =>
        LET M == {i \in Indexes(data) : FallbackKeepItem(data[i])}
        IN  /\ Len(out.list) <= 3
            /\ Len(out.list) = MinOf(3, Cardinality(M))
            /\ \A k \in Indexes(out.list) :
                  /\ out.list[k].displayName
                        = data[NthOf(M, k)].display_name \o OutsideSuffix
                  /\ out.list[k].importance = ImportanceOf(data[NthOf(M, k)])
                  /\ out.list[k].featureCategory = "administrative"
                  /\ out.list[k].icon = IconDefault

\* four matches, the fourth cut off, the order not that of importance, and an
\* entry whose type would be natural on the main path
C7_Witness ==
    /\ out.path = "fallback"
    /\ data = <<TroyOH, YellowstoneWY, TroyOH, TroyOH>>
    /\ Len(out.list) = 3
    /\ out.list[1].importance < out.list[2].importance
    /\ out.list[2].type = "protected_area"
    /\ out.list[2].featureCategory = "administrative"

\* C8: a non-empty response in which every record fails the type/class test
\* gives [], in region or not.
C8_NoRelevantTypeGivesEmpty ==
    (/\ out.path # "none"
     /\ data # <<>>
     /\ \A i \in Indexes(data) : ~IsRelevantType(data[i]))
    => out.list = <<>>

C8_Witness ==
    /\ out.path # "none"
    /\ data = <<DinerNY, DinerOR>>
    /\ IsInNY(DinerNY) /\ ~IsInNY(DinerOR)
    /\ out.list = <<>>

\* C9: the main path's list is in descending order of importance, entries of
\* equal importance in upstream order, and it is a permutation of the kept
\* records.
C9_MainSortedStable ==
    out.path = "main" =>
        LET kept == MapItems(SelectSeq(data, KeepItem))
            SameImportance(l, v) ==
                LET Has(x) == x.importance = v IN SelectSeq(l, Has)
        IN  /\ Len(out.list) = Len(kept)
            /\ \A i \in 1..(Len(out.list) - 1) :
                  out.list[i].importance >= out.list[i + 1].importance
            /\ \A i \in Indexes(kept) :
                  SameImportance(out.list, kept[i].importance)
                      = SameImportance(kept, kept[i].importance)

C9_Witness ==
    /\ out.path = "main"
    /\ data = <<MarcyNY, TroyNY, AlbanyNY>>
    /\ out.list = <<MapItem(TroyNY), MapItem(AlbanyNY), MapItem(MarcyNY)>>
    /\ MapItem(TroyNY).importance = MapItem(AlbanyNY).importance

\* a response of exactly one record that is in region, type city, class place
OneCityRecord ==
    /\ out.path # "none"
    /\ Len(data) = 1
    /\ IsInNY(data[1])
    /\ data[1].type = "city"
    /\ data[1].class = "place"

ParsesToNaN(text) ==
    LET s    == TrimStart(text)
        body == IF s # <<>> /\ Head(s) \in {"-", "+"} THEN Tail(s) ELSE s
        ip   == DigitRun(body)
        rest == SubSeq(body, Len(ip) + 1, Len(body))
        fp   == IF rest # <<>> /\ Head(rest) = "." THEN DigitRun(Tail(rest)) ELSE <<>>
    IN  ip = <<>> /\ fp = <<>>

\* row[k] || ''
TextOrEmpty(row, k) == IF k \in DOMAIN row THEN row[k] ELSE <<>>

\* parseFloat(row[k]) || 0: NaN (an absent, empty or unparsable field) and 0
\* both give 0
FloatOrZero(row, k) ==
    IF k \notin DOMAIN row \/ ParsesToNaN(row[k]) THEN 0 ELSE ParseFloat(row[k])

\* row['Note'] || row['Notes'] || ''
NotesOf(row) ==
    IF TextOrEmpty(row, "Note") # <<>> THEN row["Note"] ELSE TextOrEmpty(row, "Notes")

\* the map callback of parseCampsiteCSV
MapRow(row) ==
    [name      |-> TextOrEmpty(row, "Name"),
     stateLand |-> TextOrEmpty(row, "State Land"),
     latitude  |-> FloatOrZero(row, "Latitude"),
     longitude |-> FloatOrZero(row, "Longitude"),
     address   |-> TextOrEmpty(row, "Address"),
     town      |-> TextOrEmpty(row, "Town"),
     county    |-> TextOrEmpty(row, "County"),
     notes     |-> NotesOf(row)]

MapRows(rows) == [i \in 1..Len(rows) |-> MapRow(rows[i])]

KeepSiteEitherCoordinate(site) ==
    (site.latitude # 0 \/ site.longitude # 0) /\ Trim(site.name) # <<>>

\* the filter callback of parseCampsiteCSV
KeepSite(site) ==
    site.latitude # 0 /\ site.longitude # 0 /\ Trim(site.name) # <<>>

ParseCampsiteCSV(rows) == SelectSeq(MapRows(rows), KeepSite)

\* the rows of the tests, and rows with each defect a line can have
SiteSouth ==
    ("State Land" :> <<"F","o","r","e","s","t">>) @@
    [Name      |-> <<"S","o","u","t","h">>,
     Latitude  |-> <<"4","4",".","1","1","9","5">>,
     Longitude |-> <<"-","7","5",".","2","1","7","6">>,
     Address   |-> <<"9","8"," ","R","d">>,
     Town      |-> <<"F","i","n","e">>,
     County    |-> <<"S","t",".">>]

SiteLake ==
    [Name      |-> <<"L","a","k","e">>,
     Latitude  |-> <<"4","4",".","1","0","7">>,
     Longitude |-> <<"-","7","5",".","0","6","7","4">>,
     Notes     |-> <<"N","o","t","e">>]

ZeroCoords ==
    [Name |-> <<"Z","e","r","o">>, Latitude |-> <<"0">>, Longitude |-> <<"0">>]

EmptyCoords ==
    [Name |-> <<"N","o","n","e">>, Latitude |-> <<>>, Longitude |-> <<>>]

NoLongitude ==
    [Name |-> <<"H","a","l","f">>, Latitude |-> <<"4","4",".","2">>]

RowPool ==
    {SiteSouth, SiteLake, ZeroCoords, EmptyCoords, NoLongitude,
     \* a longitude of zero alone
     [Name      |-> <<"E","a","s","t">>,
      Latitude  |-> <<"4","4",".","1">>,
      Longitude |-> <<"0",".","0">>],
     \* a latitude that is no number
     [Name      |-> <<"T","e","x","t">>,
      Latitude  |-> <<"n","/","a">>,
      Longitude |-> <<"-","7","5",".","3">>],
     \* a blank name
     [Name      |-> <<" ">>,
      Latitude  |-> <<"4","4",".","3">>,
      Longitude |-> <<"-","7","5",".","4">>]}

\* the longest file the check feeds in, in lines after the header
MaxRows == 3

CsvPool == UNION {[1..n -> RowPool] : n \in 0..MaxRows}

\* what fetch('/campsites.csv') can settle with, the file holding rows
CsvFetchOutcomes(rows) ==
    {Response(200, rows), Response(404, <<>>), Response(500, <<>>),
     Rejection(TRUE, "Network error")}

\* the try block of loadCampsiteData throws
LoadThrows(o) == o.kind = "rejection" \/ ~ResponseOk(o)

LoadUncaught(o) ==
    IF LoadThrows(o)
    THEN [status |-> "rejected", list |-> <<>>, fetched |-> o]
    ELSE [status |-> "resolved", list |-> ParseCampsiteCSV(o.body), fetched |-> o]

\* how the promise of loadCampsiteData settles
LoadSettled(o) ==
    IF LoadThrows(o)
    THEN [status |-> "resolved", list |-> <<>>, fetched |-> o]
    ELSE [status |-> "resolved", list |-> ParseCampsiteCSV(o.body), fetched |-> o]

NoFetch == Rejection(FALSE, "(no fetch)")

NotCalled == [status |-> "idle", list |-> <<>>, fetched |-> NoFetch]

InitCsv ==
    /\ data \in CsvPool
    /\ out = NotCalled
    /\ cache = EmptyCache
    /\ lastRequestTime = 0
    /\ now = StartTime
    /\ calls = NoCalls
    /\ lastSettled = NothingSettled
    /\ clearPending = "no"
    /\ sequential = TRUE
    /\ backToBack = "none"
    /\ lastDispatch = 0
    /\ bar = InitialBar
    /\ tip = InitialTip

\* parseCampsiteCSV(csvText) called on the file's text
ParseCsvCalled ==
    /\ out = NotCalled
    /\ out' = [status |-> "parsed", list |-> ParseCampsiteCSV(data), fetched |-> NoFetch]
    /\ UNCHANGED <<data, bar, tip, serviceVars>>

\* loadCampsiteData() up to its await of fetch
LoadCampsiteData ==
    /\ out = NotCalled
    /\ out' = [status |-> "fetching", list |-> <<>>, fetched |-> NoFetch]
    /\ UNCHANGED <<data, bar, tip, serviceVars>>

\* the fetch settles and loadCampsiteData runs to its return
LoadFetchSettles(o) ==
    /\ out.status = "fetching"
    /\ out' = LoadSettled(o)
    /\ UNCHANGED <<data, bar, tip, serviceVars>>

NextCsv ==
    \/ ParseCsvCalled
    \/ LoadCampsiteData
    \/ \E o \in CsvFetchOutcomes(data) : LoadFetchSettles(o)

SpecCsv == InitCsv /\ [][NextCsv]_vars

(***************************************************************************)
(* Claims about the campsite data file, checked under SpecCsv              *)
(***************************************************************************)
\* a coordinate field that is absent, empty, not a number, or zero
BadCoordinate(row, k) ==
    \/ k \notin DOMAIN row
    \/ row[k] = <<>>
    \/ ParsesToNaN(row[k])
    \/ ParseFloat(row[k]) = 0

\* the lines parseCampsiteCSV is to keep
GoodRows(rows) ==
    {i \in Indexes(rows) :
        /\ ~BadCoordinate(rows[i], "Latitude")
        /\ ~BadCoordinate(rows[i], "Longitude")
        /\ "Name" \in DOMAIN rows[i]
        /\ Trim(rows[i]["Name"]) # <<>>}

\* C24: every campsite parseCampsiteCSV returns has a non-zero latitude, a
\* non-zero longitude and a non-blank name; the lines whose coordinates are
\* 0, missing or unparsable are dropped, and the lines kept come out in the
\* order of the file.
C24_ParsedSitesValidInOrder ==
    out.status = "parsed"
    => /\ \A j \in Indexes(out.list) :
             /\ out.list[j].latitude # 0
             /\ out.list[j].longitude # 0
             /\ Trim(out.list[j].name) # <<>>
       /\ Len(out.list) = Cardinality(GoodRows(data))
       /\ \A j \in Indexes(out.list) :
             LET row == data[NthOf(GoodRows(data), j)]
             IN  /\ out.list[j].name = row["Name"]
                 /\ out.list[j].latitude = ParseFloat(row["Latitude"])
                 /\ out.list[j].longitude = ParseFloat(row["Longitude"])
       /\ data = <<SiteSouth, ZeroCoords, EmptyCoords>>
          => /\ Len(out.list) = 1
             /\ out.list[1].latitude = 441195
             /\ out.list[1].longitude = -752176

C24_Witness ==
    /\ out.status = "parsed"
    /\ data = <<SiteLake, NoLongitude, SiteSouth>>
    /\ Len(out.list) = 2
    /\ out.list[1].name = SiteLake["Name"]
    /\ out.list[2].name = SiteSouth["Name"]

\* C25: loadCampsiteData never rejects: a rejected fetch or a non-OK status
\* resolves to the empty list, any other fetch to the parsed campsites.
C25_LoadNeverRejects ==
    out.status \notin {"idle", "fetching", "parsed"}
    => /\ out.status = "resolved"
       /\ IF out.fetched.kind = "rejection" \/ ~ResponseOk(out.fetched)
          THEN out.list = <<>>
          ELSE out.list = ParseCampsiteCSV(data)

C25_Witness ==
    /\ out.status = "resolved"
    /\ out.fetched = Response(500, <<>>)
    /\ out.list = <<>>
    /\ ParseCampsiteCSV(data) # <<>>

(***************************************************************************)
(* The pipeline on a response of one record, the record drawn from every   *)
(* combination of a display label, an address.state and a type/class pair  *)
(***************************************************************************)
\* a label that ends in ' NY', with no comma
LabelEndsInNy == <<"T","r","o","y"," ","N","Y">>

LabelPool ==
    {LabelEndsInNy,
     <<"T","r","o","y">>,  \* no marker
     <<"T","r","o","y",","," ","N","e","w"," ","Y","o","r","k">>,  \* the full region name
     <<"N","E","W"," ","Y","O","R","K">>,  \* the full region name in capitals
     <<"T","r","o","y",","," ","N","Y">>,  \* ', ny'
     <<"T","r","o","y"," ","N","Y"," ","U","S","A">>,  \* ' ny '
     <<"A","l","b","a","n","y",","," ","G","e","o","r","g","i","a">>,  \* 'ny,'
     <<"S","u","n","n","y","v","a","l","e">>,  \* 'ny' inside a word
     <<"N","Y"," ","D","i","n","e","r">>}  \* 'ny' at the start, a space after it

ItemOf(label, state, kind) ==
    [display_name |-> label,
     lat          |-> <<"4","2",".","7","2">>,
     lon          |-> <<"-","7","3",".","6","9">>,
     importance   |-> <<"0",".","5">>,
     type         |-> kind[1],
     class        |-> kind[2],
     address      |-> [state |-> state],
     boundingbox  |-> <<>>]

\* every label with every address.state and every <<type, class>>
ItemPool ==
    {ItemOf(label, state, kind) :
        label \in LabelPool,
        state \in {Undefined, "New York", "NY", "ny", "Ohio"},
        kind \in {<<"city", "place">>, <<"peak", "natural">>, <<"park", "natural">>,
                  <<"protected_area", "natural">>, <<"lake", "water">>,
                  <<"park", "water">>, <<"park", "leisure">>,
                  <<"protected_area", "leisure">>, <<"protected_area", "boundary">>,
                  <<"nature_reserve", "boundary">>, <<"park", "boundary">>,
                  <<"restaurant", "amenity">>, <<Undefined, "amenity">>}}

InitItem ==
    /\ data \in {<<item>> : item \in ItemPool}
    /\ out = NotRun
    /\ cache = EmptyCache
    /\ lastRequestTime = 0
    /\ now = StartTime
    /\ calls = NoCalls
    /\ lastSettled = NothingSettled
    /\ clearPending = "no"
    /\ sequential = TRUE
    /\ backToBack = "none"
    /\ lastDispatch = 0
    /\ bar = InitialBar
    /\ tip = InitialTip

SpecItem == InitItem /\ [][NextPipe]_vars

(***************************************************************************)
(* Claims about the region test and the categories, checked under SpecItem *)
(***************************************************************************)
\* the lower-cased label has 'ny' at position i
NyAt(label, i) == i < Len(label) /\ label[i] = "n" /\ label[i + 1] = "y"

SpaceBefore(label, i) == i > 1 /\ label[i - 1] = " "
SpaceAfter(label, i) == i + 2 <= Len(label) /\ label[i + 2] = " "
CommaAfter(label, i) == i + 2 <= Len(label) /\ label[i + 2] = ","
CommaSpaceBefore(label, i) == i > 2 /\ label[i - 2] = "," /\ label[i - 1] = " "

HasFullName(label) == Includes(label, <<"n","e","w"," ","y","o","r","k">>)

StateIsRegion(item) == item.address.state \in {"New York", "NY"}

\* the only record of the response came back on the main path
KeptOnMainPath == out.path = "main" /\ Len(out.list) = 1

\* C26 (as claimed): a record is in region exactly when its lower-cased label
\* has the full region name, or 'ny' preceded by ', ', or 'ny' preceded by a
\* space, or 'ny' followed by ',', or its address.state is 'New York' or
\* 'NY'; a label ending in ' NY' with no comma is in region.
C26_InRegionNyAfterSpace ==
    (out.path # "none" /\ IsRelevantType(data[1]))
    => LET label == ToLowerCase(data[1].display_name)
       IN  KeptOnMainPath
           <=> \/ HasFullName(label)
               \/ \E i \in 1..Len(label) :
                     NyAt(label, i) /\ (\/ CommaSpaceBefore(label, i)
                                        \/ SpaceBefore(label, i)
                                        \/ CommaAfter(label, i))
               \/ StateIsRegion(data[1])

\* C26: a record is in region exactly when its lower-cased label has the full
\* region name, or 'ny' preceded by ', ', or 'ny' with a space before it and
\* a space after it, or 'ny' followed by ',', or its address.state is
\* 'New York' or 'NY'; a label ending in ' NY' with no comma is not in region
\* by its label.
C26_InRegionNyBetweenSpaces ==
    (out.path # "none" /\ IsRelevantType(data[1]))
    => LET label == ToLowerCase(data[1].display_name)
       IN  KeptOnMainPath
           <=> \/ HasFullName(label)
               \/ \E i \in 1..Len(label) :
                     NyAt(label, i) /\ (\/ CommaSpaceBefore(label, i)
                                        \/ SpaceBefore(label, i) /\ SpaceAfter(label, i)
                                        \/ CommaAfter(label, i))
               \/ StateIsRegion(data[1])

C26_Witness ==
    /\ out.path # "none"
    /\ data[1].display_name = LabelEndsInNy
    /\ data[1].address.state = Undefined
    /\ IsRelevantType(data[1])
    /\ ~KeptOnMainPath

\* C27: on the main path the class outranks the type: class natural gives
\* natural (peak icon for type peak, tree icon otherwise), else class water
\* gives water, else class leisure gives recreation, else type protected_area
\* or nature_reserve gives natural, else type park gives recreation, else
\* administrative with the default icon; the category is always one of the
\* four.
C27_ClassOutranksType ==
    KeptOnMainPath
    => LET class    == data[1].class
           type     == data[1].type
           category == out.list[1].featureCategory
           icon     == out.list[1].icon
           byClass  == class \in {"natural", "water", "leisure"}
           byType   == ~byClass /\ type \in {"protected_area", "nature_reserve", "park"}
       IN  /\ category \in {"administrative", "natural", "water", "recreation"}
           /\ (class = "natural" /\ type = "peak")
                 => (category = "natural" /\ icon = IconPeak)
           /\ (class = "natural" /\ type # "peak")
                 => (category = "natural" /\ icon = IconTree)
           /\ class = "water" => (category = "water" /\ icon = IconWater)
           /\ class = "leisure" => (category = "recreation" /\ icon = IconLeisure)
           /\ (byType /\ type # "park") => (category = "natural" /\ icon = IconTree)
           /\ (byType /\ type = "park") => (category = "recreation" /\ icon = IconPark)
           /\ (~byClass /\ ~byType)
                 => (category = "administrative" /\ icon = IconDefault)

C27_Witness ==
    /\ KeptOnMainPath
    /\ data[1].class = "leisure"
    /\ data[1].type = "protected_area"
    /\ out.list[1].featureCategory = "recreation"
    /\ out.list[1].icon = IconLeisure

(***************************************************************************)
(* The search bar (LocationSearchBar): handleInputChange with its debounce *)
(* timer, and performSearch.  A performSearch call awaits searchLocation;  *)
(* the calls in flight settle in any order (a cache hit settles at once, a *)
(* request settles when its response arrives).                             *)
(***************************************************************************)
TypedAl   == <<"a","l">>
TypedTroy == <<"t","r","o","y">>

\* one character and a space: two characters long, one when trimmed
TypedASpace == <<"a"," ">>

\* the values the input takes: empty, one character, one character and a
\* space, two queries with results, one without
TypedPool == {<<>>, <<"a">>, TypedASpace, TypedAl, TypedTroy, <<"z","z">>}

\* the most performSearch calls awaiting searchLocation at one time
MaxSearches == 2

\* the records the upstream holds for a query
UpstreamFor(q) ==
    IF q = TypedAl THEN <<AlbanyNY, AlbanyGA>>
    ELSE IF q = TypedTroy THEN <<TroyOH, TroyNY>>
    ELSE <<>>

\* what searchLocation(q) resolves to when the upstream answers
ResultsOf(q) == ProcessResponse(UpstreamFor(q)).list

\* how the awaited searchLocation(q) can settle
SearchOutcomes == {"resolved", "rejected"}

\* the message of the GeocodingError a rejection carries
RejectionMessage == "Unable to search for location."

TooShortUntrimmed(value) == Len(value) < 2

\* value.trim().length < 2
TooShort(value) == Len(Trim(value)) < 2

\* the delay of the debounce timer (ms)
DebounceMs == 300

ClearTimeoutNothing(timers, ref) == timers

\* if (debounceRef.current) clearTimeout(debounceRef.current): the timer, if
\* it has not fired yet, is taken out
ClearTimeout(timers, ref) ==
    IF ref.set THEN timers (-) SetToBag({ref}) ELSE timers

\* handleInputChange(value)
HandleInputChange(value) ==
    /\ bar' = [bar EXCEPT
                 !.query = value,
                 !.error = NoError,
                 !.activeSuggestionIndex = -1,
                 !.timers = IF TooShort(value)
                            THEN ClearTimeout(@, bar.debounceRef)
                            ELSE ClearTimeout(@, bar.debounceRef)
                                     (+) SetToBag({TimerFor(value, now + DebounceMs)}),
                 !.debounceRef = IF TooShort(value) THEN @
                                 ELSE TimerFor(value, now + DebounceMs),
                 !.suggestions = IF TooShort(value) THEN <<>> ELSE @,
                 !.showSuggestions = IF TooShort(value) THEN FALSE ELSE @,
                 !.typed = [value |-> value, at |-> now]]
    /\ UNCHANGED <<data, out, tip, serviceVars>>

\* the debounce timer t fires: performSearch(t.value) up to its await
DebounceFires(t) ==
    /\ BagIn(t, bar.timers)
    /\ now >= t.due
    /\ BagCardinality(bar.searches) < MaxSearches
    /\ bar' = [bar EXCEPT
                 !.loading = TRUE,
                 !.error = NoError,
                 !.timers = @ (-) SetToBag({t}),
                 !.searches = @ (+) SetToBag({t.value})]
    /\ UNCHANGED <<data, out, tip, serviceVars>>

\* the awaited searchLocation(q) settles: performSearch(q) from its await to
\* the end of its finally block
SearchSettles(q, o) ==
    /\ BagIn(q, bar.searches)
    /\ bar' = [bar EXCEPT
                 !.searches = @ (-) SetToBag({q}),
                 !.suggestions = IF o = "resolved" THEN ResultsOf(q) ELSE <<>>,
                 !.error = IF o = "resolved" THEN @ ELSE RejectionMessage,
                 !.showSuggestions = TRUE,
                 !.loading = FALSE]
    /\ UNCHANGED <<data, out, tip, serviceVars>>

\* text.split(',')[0]
RECURSIVE BeforeFirstComma(_)
BeforeFirstComma(text) ==
    IF text = <<>> \/ Head(text) = "," THEN <<>>
    ELSE <<Head(text)>> \o BeforeFirstComma(Tail(text))

\* handleLocationSelect(location) applied to the state b of the bar
LocationSelected(b, location) ==
    [b EXCEPT !.query = BeforeFirstComma(location.displayName),
              !.showSuggestions = FALSE,
              !.suggestions = <<>>,
              !.activeSuggestionIndex = -1,
              !.selected = <<location>>]

\* popularLocations, as the component holds it
PopularLocations == PopularNYLocations

\* totalSuggestions of handleKeyDown
TotalSuggestions ==
    Len(bar.suggestions) + (IF bar.showPopularLocations THEN Len(PopularLocations) ELSE 0)

\* allSuggestions of the Enter case
AllSuggestions ==
    IF bar.showPopularLocations THEN PopularLocations \o bar.suggestions
    ELSE bar.suggestions

\* the locations the Enter case passes to handleLocationSelect: one or none
EnterChoice ==
    IF bar.activeSuggestionIndex >= 0
    THEN IF bar.activeSuggestionIndex < Len(AllSuggestions)
         THEN <<AllSuggestions[bar.activeSuggestionIndex + 1]>>
         ELSE <<>>
    ELSE IF Len(bar.suggestions) > 0 THEN <<bar.suggestions[1]>> ELSE <<>>

Keys == {"ArrowDown", "ArrowUp", "Enter", "Escape"}

\* handleKeyDown(e) with e.key = key
HandleKeyDown(key) ==
    /\ bar.showSuggestions
    /\ bar' =
         CASE key = "ArrowDown" ->
                [bar EXCEPT !.activeSuggestionIndex =
                    IF @ < TotalSuggestions - 1 THEN @ + 1 ELSE 0]
           [] key = "ArrowUp" ->
                [bar EXCEPT !.activeSuggestionIndex =
                    IF @ > 0 THEN @ - 1 ELSE TotalSuggestions - 1]
           [] key = "Enter" ->
                IF EnterChoice = <<>> THEN bar
                ELSE LocationSelected(bar, EnterChoice[1])
           [] key = "Escape" ->
                [bar EXCEPT !.showSuggestions = FALSE, !.activeSuggestionIndex = -1]
    /\ UNCHANGED <<data, out, tip, serviceVars>>

\* adjustedIndex of the suggestion at position index (from 0)
AdjustedIndex(index) ==
    IF bar.showPopularLocations THEN index + Len(PopularLocations) ELSE index

\* the dropdown as rendered: the pairs <<index, location>> renderSuggestion is
\* called with
Rendered ==
    IF ~bar.showSuggestions \/ bar.error # NoError THEN {}
    ELSE (IF bar.showPopularLocations /\ Len(bar.query) < 2
          THEN {<<i - 1, PopularLocations[i]>> : i \in 1..Len(PopularLocations)}
          ELSE {})
         \cup {<<AdjustedIndex(i - 1), bar.suggestions[i]>> : i \in 1..Len(bar.suggestions)}

\* onClick of a rendered suggestion
SuggestionClicked(r) ==
    /\ r \in Rendered
    /\ bar' = LocationSelected(bar, r[2])
    /\ UNCHANGED <<data, out, tip, serviceVars>>

\* onFocus of the input
HandleFocus ==
    /\ bar' = [bar EXCEPT !.showSuggestions = IF Len(bar.query) >= 2 THEN TRUE ELSE @]
    /\ UNCHANGED <<data, out, tip, serviceVars>>

\* handleClickOutside, for a mousedown outside the component
HandleClickOutside ==
    /\ bar' = [bar EXCEPT !.showSuggestions = FALSE]
    /\ UNCHANGED <<data, out, tip, serviceVars>>

InitBar ==
    /\ \E p \in BOOLEAN : bar = [InitialBar EXCEPT !.showPopularLocations = p]
    /\ tip = InitialTip
    /\ data = <<>>
    /\ out = NotRun
    /\ cache = EmptyCache
    /\ lastRequestTime = 0
    /\ now = StartTime
    /\ calls = NoCalls
    /\ lastSettled = NothingSettled
    /\ clearPending = "no"
    /\ sequential = TRUE
    /\ backToBack = "none"
    /\ lastDispatch = 0

NextBar ==
    \/ \E value \in TypedPool : HandleInputChange(value)
    \/ \E t \in BagToSet(bar.timers) : DebounceFires(t)
    \/ \E q \in BagToSet(bar.searches), o \in SearchOutcomes : SearchSettles(q, o)
    \/ \E key \in Keys : HandleKeyDown(key)
    \/ \E r \in Rendered : SuggestionClicked(r)
    \/ HandleFocus
    \/ HandleClickOutside
    \/ Tick

SpecBar == InitBar /\ [][NextBar]_vars

(***************************************************************************)
(* Claims about the search bar, checked under SpecBar                      *)
(***************************************************************************)
\* no search in flight and no debounce timer pending
BarAtRest == bar.searches = EmptyBag /\ bar.timers = EmptyBag

\* C30 (as claimed): with no search in flight and no timer pending, the
\* suggestions are those of the query typed last (none when its search
\* failed): a response for an older query never replaces them, and with the
\* input below 2 characters the list is not open with results.
C30_SuggestionsOfLatestQuery ==
    BarAtRest
    => IF TooShort(bar.query)
       THEN ~(bar.showSuggestions /\ bar.suggestions # <<>>)
       ELSE bar.suggestions \in {ResultsOf(bar.query), <<>>}

\* C32: searchLocation is only ever called with a value whose trimmed length
\* is at least 2 (the value of every search in flight and of the pending
\* timer); an input change to a shorter value starts no search, leaves no
\* timer pending, and clears and hides the suggestions.
C32_SearchOnlyFromTwoCharacters ==
    [][/\ \A q \in BagToSet(bar.searches') : Len(Trim(q)) >= 2
       /\ \A t \in BagToSet(bar.timers') : Len(Trim(t.value)) >= 2
       /\ \A value \in TypedPool :
             (HandleInputChange(value) /\ Len(Trim(value)) < 2)
             => /\ bar.searches' = bar.searches
                /\ bar.timers' = EmptyBag
                /\ bar.suggestions' = <<>>
                /\ ~bar.showSuggestions']_vars

\* a value of two characters that trims to one was typed while a search was
\* out: no timer, no new search, the list cleared and closed
C32_Witness ==
    /\ bar.query = TypedASpace
    /\ BagCardinality(bar.searches) = 1
    /\ bar.timers = EmptyBag
    /\ bar.suggestions = <<>>
    /\ ~bar.showSuggestions
    /\ bar.error = NoError

\* C33: every input change cancels the pending debounce timer: at most one
\* timer is pending at any time, a search starts only for the value of the
\* last input change and only once that value has stood for 300 ms, and it
\* leaves no timer behind, so a burst of keystrokes starts one search at most.
C33_OneTimerSearchAfterQuiet ==
    [][/\ BagCardinality(bar.timers') <= 1
       /\ \A value \in TypedPool :
             HandleInputChange(value)
             => \A t \in BagToSet(bar.timers') : t.value = value /\ t.due = now + 300
       /\ \A t \in BagToSet(bar.timers) :
             DebounceFires(t)
             => /\ t.value = bar.typed.value
                /\ now - bar.typed.at >= 300
                /\ bar.timers' = EmptyBag
                /\ bar.searches' = bar.searches (+) SetToBag({t.value})]_vars

\* two values were typed in a burst before the first search, and the one
\* search out is for the second of them
C33_Witness ==
    /\ bar.typed.value = TypedTroy
    /\ bar.searches = SetToBag({TypedTroy})
    /\ bar.timers = EmptyBag
    /\ bar.suggestions = <<>>
    /\ bar.loading
    /\ now - bar.typed.at >= 300

\* a press of Enter that selects a location
EnterSelects == HandleKeyDown("Enter") /\ EnterChoice # <<>>

\* C31 (as claimed): Enter only ever selects a location the dropdown is
\* showing, and with an active index the location selected is the one
\* rendered with that index.
C31_EnterSelectsDisplayedItem ==
    [][EnterSelects
       => /\ bar.selected' = EnterChoice
          /\ \E r \in Rendered : r[2] = EnterChoice[1]
          /\ bar.activeSuggestionIndex >= 0
             => <<bar.activeSuggestionIndex, EnterChoice[1]>> \in Rendered]_vars

\* C33 (as claimed): a search is started only for a value the input has held
\* unchanged for 300 ms, so when a search starts the input still holds the
\* value searched for.
C33_SearchForStandingInput ==
    [][\A t \in BagToSet(bar.timers) :
          DebounceFires(t) => bar.query = t.value /\ now - bar.typed.at >= 300]_vars

\* C35 (as claimed): the loading indicator is on exactly while at least one
\* search the bar started is in flight: never off with a search pending, and
\* off once all have settled.
C35_LoadingExactlyWhileSearching ==
    bar.loading <=> bar.searches # EmptyBag

\* C36: a 2xx reverse-lookup response without display_name makes
\* reverseGeocode resolve to null and build no LocationResult, so a result
\* that is not null always has a displayName that is not empty.
C36_NoDisplayNameResolvesNull ==
    [][\A c \in BagToSet(calls), o \in ReverseOutcomes :
          RespondReverse(c, o)
          => /\ (UpstreamKind(o) = "http2xx" /\ o.body.display_name = <<>>)
                => /\ lastSettled'.status = "resolved"
                   /\ lastSettled'.list = <<>>
             /\ \A i \in 1..Len(lastSettled'.list) :
                   /\ lastSettled'.list[i].displayName # <<>>
                   /\ lastSettled'.list[i].displayName = o.body.display_name]_vars

\* a reverse lookup answered 2xx has resolved to null, and nothing is left in
\* flight
C36_Witness ==
    /\ lastSettled.op = "reverseGeocode"
    /\ lastSettled.upstream = "http2xx"
    /\ lastSettled.status = "resolved"
    /\ lastSettled.list = <<>>
    /\ calls = NoCalls

(***************************************************************************)
(* The service with its scheduling: timers that are due fire, the upstream *)
(* answers every request, time goes on                                     *)
(***************************************************************************)
\* the last instant of the clock
Horizon == StartTime + MaxTicks * TickMs

\* the clock covers the wait of every call the step leaves sleeping
WaitsWithinHorizon == \A c \in BagToSet(calls') : c.wakeAt <= Horizon

\* every call a caller can have in flight
CallUniverse ==
    {Fetching(q) : q \in QueryPool} \cup {FetchingReverse(co) : co \in CoordsPool}
        \cup {Sleeping(q, StartTime + k * TickMs) : q \in QueryPool, k \in 0..MaxTicks}
        \cup {SleepingReverse(co, StartTime + k * TickMs) : co \in CoordsPool, k \in 0..MaxTicks}

NextLive ==
    \/ \E q \in QueryPool : SearchLocation(q) /\ WaitsWithinHorizon
    \/ \E c \in BagToSet(calls) : TimerFires(c)
    \/ \E c \in BagToSet(calls), o \in FetchOutcomes : Respond(c, o)
    \/ \E co \in CoordsPool : ReverseGeocode(co) /\ WaitsWithinHorizon
    \/ \E c \in BagToSet(calls), o \in ReverseOutcomes : RespondReverse(c, o)
    \/ ClearCache
    \/ Tick

\* setTimeout runs its callback once the delay is over; the upstream answers
\* every request (with a response or a failure); time goes on
Scheduling ==
    /\ WF_vars(Tick)
    /\ WF_vars(\E c \in BagToSet(calls) : TimerFires(c))
    /\ WF_vars(\E c \in BagToSet(calls), o \in FetchOutcomes : Respond(c, o))
    /\ WF_vars(\E c \in BagToSet(calls), o \in ReverseOutcomes : RespondReverse(c, o))

SpecLive == Init /\ [][NextLive]_vars /\ Scheduling

\* C34: if the upstream answers every request and timers fire, every
\* searchLocation and reverseGeocode call settles: no call stays for ever in
\* throttleRequest waiting for its timer, and none stays for ever at its
\* fetch.
C34_EveryCallSettles ==
    \A c \in CallUniverse : []<>~BagIn(c, calls)

\* a call has waited out the throttle delay: with one answer stored, a reverse
\* lookup dispatched a full interval after the start has settled, and nothing
\* is in flight
C34_Witness ==
    /\ calls = NoCalls
    /\ cache # EmptyCache
    /\ lastSettled.op = "reverseGeocode"
    /\ lastSettled.list # <<>>
    /\ lastDispatch = StartTime + MinRequestInterval
    /\ ~sequential

(***************************************************************************)
(* The tooltip of CampsiteMap: pointer events, the hide timer, the clock   *)
(***************************************************************************)
\* the delay of the hide timer (ms)
HideMs == 50

\* the step of the clock (ms) and the number of its steps
TipTickMs == HideMs \div 2
MaxTipTicks == 6

\* where the pointer can be: on a campsite marker, on the map off every
\* marker, on the tooltip, off the map
Positions == {"marker", "empty", "tooltip", "outside"}

\* clearHideTimeout()
ClearHideTimeout(b) ==
    IF b.hideTimeoutRef.set
    THEN [b EXCEPT !.timers = @ \ {b.hideTimeoutRef.due}, !.hideTimeoutRef = NoHideTimeout]
    ELSE b

HideTooltipLeavesDisplay(b) ==
    [ClearHideTimeout(b) EXCEPT !.currentCampsiteRef = "null"]

\* hideTooltip()
HideTooltip(b) ==
    [ClearHideTimeout(b) EXCEPT
        !.display = FALSE,
        !.currentCampsiteRef = "null",
        !.hiddenAt = IF b.display THEN b.t ELSE @]

\* scheduleHide(), to the return of setTimeout
ScheduleHide(b) ==
    [ClearHideTimeout(b) EXCEPT
        !.hideTimeoutRef = HideTimeout(b.t + HideMs),
        !.timers = @ \cup {b.t + HideMs},
        !.scheduledAt = b.t]

\* showTooltip(campsite, coordinate), for the one campsite of the map
ShowTooltip(b) ==
    IF ClearHideTimeout(b).currentCampsiteRef = "null" \/ ~ClearHideTimeout(b).display
    THEN [ClearHideTimeout(b) EXCEPT !.currentCampsiteRef = "campsite", !.display = TRUE]
    ELSE ClearHideTimeout(b)

\* tooltipRef.current.onmouseenter
OnMouseEnter(b) == ClearHideTimeout([b EXCEPT !.isHoveringTooltipRef = TRUE])

\* tooltipRef.current.onmouseleave
OnMouseLeave(b) == ScheduleHide([b EXCEPT !.isHoveringTooltipRef = FALSE])

\* the 'pointermove' handler of the map, with a feature at the pixel (the
\* pointer is on the marker) or none
OnPointerMove(b, onMarker) ==
    IF b.isHoveringTooltipRef THEN b
    ELSE IF onMarker THEN ShowTooltip(ClearHideTimeout(b))
    ELSE ScheduleHide(b)

\* the events of a pointer movement from one place to another, in their
\* order: the tooltip's mouseleave or mouseenter, then the map's pointermove
EventsOfMove(b, from, to) ==
    IF to = "tooltip"
    THEN IF from = "tooltip" THEN b ELSE OnMouseEnter(b)
    ELSE IF to = "outside"
    THEN IF from = "tooltip" THEN OnMouseLeave(b) ELSE b
    ELSE OnPointerMove(IF from = "tooltip" THEN OnMouseLeave(b) ELSE b, to = "marker")

\* the pointer moves to a place (within the place it is in, or to another);
\* it can be on the tooltip only while the tooltip is on show
PointerMoves(to) ==
    /\ to = "tooltip" => tip.display
    /\ tip' = [EventsOfMove(tip, tip.pointer, to) EXCEPT
                 !.pointer = to,
                 !.awaySince = IF to \in {"marker", "tooltip"} THEN -1
                               ELSE IF @ = -1 THEN tip.t ELSE @]
    /\ UNCHANGED <<data, out, bar, serviceVars>>

\* the callback of the hide timer due at a time runs
HideTimerFires(due) ==
    /\ due \in tip.timers
    /\ tip.t >= due
    /\ tip' = IF ~tip.isHoveringTooltipRef
              THEN HideTooltip([tip EXCEPT !.timers = @ \ {due}])
              ELSE [tip EXCEPT !.timers = @ \ {due}]
    /\ UNCHANGED <<data, out, bar, serviceVars>>

\* time passes, up to the time the next timer is due
TipTick ==
    /\ tip.t < MaxTipTicks * TipTickMs
    /\ \A due \in tip.timers : due > tip.t
    /\ tip' = [tip EXCEPT !.t = @ + TipTickMs]
    /\ UNCHANGED <<data, out, bar, serviceVars>>

InitTip ==
    /\ tip = InitialTip
    /\ bar = InitialBar
    /\ data = <<>>
    /\ out = NotRun
    /\ cache = EmptyCache
    /\ lastRequestTime = 0
    /\ now = StartTime
    /\ calls = NoCalls
    /\ lastSettled = NothingSettled
    /\ clearPending = "no"
    /\ sequential = TRUE
    /\ backToBack = "none"
    /\ lastDispatch = 0

NextTip ==
    \/ \E to \in Positions : PointerMoves(to)
    \/ \E due \in tip.timers : HideTimerFires(due)
    \/ TipTick

SpecTip == InitTip /\ [][NextTip]_vars

\* the pointer is on the map, off every marker and off the tooltip, or off the
\* map
PointerAway == tip.pointer \in {"empty", "outside"}

\* C37 (as claimed): once the pointer is over neither a marker nor the
\* tooltip, the tooltip is hidden within 50 ms, whatever the pointer does over
\* empty map afterwards.
C37_HiddenWithinDelayOfLeaving ==
    (tip.display /\ PointerAway) => tip.t - tip.awaySince <= HideMs

\* C37 (amended): with the pointer on the map off every marker, the tooltip is
\* hidden within 50 ms of the last pointer movement there (each one sets the
\* hide timer anew); the tooltip is hidden by the hide timer only, 50 ms after
\* it was set, and never while the pointer is on the tooltip.
C37_HiddenAfterLastMovement ==
    [][/\ (tip.display' /\ tip.pointer' = "empty")
             => /\ tip.timers' = {tip.scheduledAt' + HideMs}
                /\ tip.t' <= tip.scheduledAt' + HideMs
       /\ (tip.display /\ ~tip.display')
             => /\ \E due \in tip.timers : HideTimerFires(due)
                /\ tip.t = tip.scheduledAt + HideMs
                /\ tip.pointer # "tooltip"
                /\ tip.pointer' # "tooltip"
       /\ tip.isHoveringTooltipRef' <=> tip.pointer' = "tooltip"]_vars

\* the pointer left the marker, moved again over empty map later, and the
\* tooltip was hidden 50 ms after that movement, more than 50 ms after the
\* pointer left
C37_Witness ==
    /\ ~tip.display
    /\ tip.pointer = "empty"
    /\ tip.hiddenAt = tip.scheduledAt + HideMs
    /\ tip.scheduledAt > tip.awaySince
    /\ tip.awaySince > 0
    /\ tip.hiddenAt - tip.awaySince > HideMs

====
